---- MODULE Spec2Model ----
(***************************************************************************)
(* Model of the RSS aggregator (PietPadda/aggregator): the feed store's    *)
(* selection policy, the agg polling loop (HandlerAgg / scrapeFeeds), the  *)
(* feed fetcher (rssfeed.FetchFeed) and the posts table.                   *)
(***************************************************************************)
EXTENDS Integers, Sequences, FiniteSets, TLC

(***************************************************************************)
(* Bounds of the model.                                                    *)
(***************************************************************************)
MaxFeeds == 3
MaxCycles == 3
MaxAdds == 1
MaxItems == 2
MaxCmds == 5
\* Scrape cycles of the second scheduler instance.
MaxPeerCycles == 2

(***************************************************************************)
(* Values.                                                                 *)
(***************************************************************************)
\* SQL NULL of a nullable TIMESTAMP column (feeds.last_fetched_at,
\* posts.published_at); every concrete timestamp of the model is >= 1.
NULL == -1

\* No row / nil pointer.
NoFeed == 0

FeedIds == 1..MaxFeeds

\* The url the initial feed with id i has.
SampleUrls == <<"http://a", "http://b", "http://c", "http://d", "http://e">>
UrlN(i) == SampleUrls[i]

\* Command names and handler functions, a sample of those main registers.
CmdNames == {"login", "agg"}

HandlerFuncs == {"HandlerLogin", "HandlerAgg"}

\* What a handler function returns when it is run.
HandlerResult(h) == IF h = "HandlerLogin" THEN "nil" ELSE "error: " \o h

\* A map with no key.
EmptyMap == [n \in {} |-> ""]

\* The Commands main builds and registers into. nil: the pointer is nil;
\* made: the Handler map was made.
MainCommands ==
    [nil |-> FALSE, made |-> TRUE,
     Handler |-> [n \in CmdNames |-> IF n = "login" THEN "HandlerLogin" ELSE "HandlerAgg"]]

\* Commands.Register that does not replace a handler registered before.
RegisterKeepFirst(c, name, f) ==
    IF c.nil THEN [cmds |-> c, err |-> "commands is nil"]
    ELSE IF ~c.made THEN [cmds |-> c, err |-> "Handler map is nil"]
    ELSE IF name \in DOMAIN c.Handler THEN [cmds |-> c, err |-> "nil"]
    ELSE [cmds |-> [c EXCEPT !.Handler =
                       [n \in DOMAIN c.Handler \cup {name} |->
                           IF n = name THEN f ELSE c.Handler[n]]],
          err |-> "nil"]

\* Commands.Register: the Commands after it and the error returned.
Register(c, name, f) ==
    IF c.nil THEN [cmds |-> c, err |-> "commands is nil"]
    ELSE IF ~c.made THEN [cmds |-> c, err |-> "Handler map is nil"]
    ELSE [cmds |-> [c EXCEPT !.Handler =
                       [n \in DOMAIN c.Handler \cup {name} |->
                           IF n = name THEN f ELSE c.Handler[n]]],
          err |-> "nil"]

\* Commands.Run: the error returned and the handlers that were invoked.
Run(c, s, name) ==
    IF c.nil THEN [err |-> "error: commands is nil", invoked |-> {}]
    ELSE IF s = "nil" THEN [err |-> "error: State is nil", invoked |-> {}]
    ELSE IF ~c.made THEN [err |-> "error: Handler map is nil", invoked |-> {}]
    ELSE IF name \notin DOMAIN c.Handler
    THEN [err |-> "error: command is not registered", invoked |-> {}]
    ELSE [err |-> HandlerResult(c.Handler[name]), invoked |-> {c.Handler[name]}]

Users == {"u1"}

VARIABLES
    feeds,      \* table feeds: id -> row
    posts,      \* table posts: set of rows
    follows,    \* table feed_follows: set of rows [id, user_id, feed_id]
    users,      \* table users: the registered names (a user's id is its name)
    config,     \* current_user_name of ~/.gatorconfig.json
    done,       \* the last one-shot command that ran, and how it ended
    now,        \* the clock read by NOW() / time.Now()
    queries,    \* s.DB: "db" or "nil"
    cmd,        \* the agg command as run: the state pointer and cmd.Args
    cmds,       \* the Commands of main: the pointer and its Handler map
    pc,         \* position of the agg process
    ticker,     \* interval of timeTicker (0: not created)
    aggErr,     \* error returned by HandlerAgg ("none": it has not returned)
    sel,        \* nextFeed.ID of the running scrapeFeeds (NoFeed: none)
    feed,       \* the *RSSFeed returned by FetchFeed in this cycle
    err,        \* error returned by the last scrapeFeeds ("nil": none)
    out,        \* messages the current cycle has printed
    cyc,        \* storage / network operations issued by the current cycle
    cycles,     \* number of scrapeFeeds calls started
    hist,       \* history: feeds selected so far, in order
    pending,    \* history: feed -> feeds that were older when it was marked
                \*          and have not been selected since
    ing,        \* the running ingestion of a parsed feed
    prev,       \* the parsed feed and report of the last finished ingestion
    tm,         \* the wall clock and timeTicker's channel, when the run is timed
    call,       \* the last direct call of a function: <<>> or <<arguments, result>>
    peer        \* a second scheduler instance on the same database

vars == <<feeds, posts, follows, users, config, done, now, queries, cmd, cmds, pc, ticker, aggErr, sel,
          feed, err, out, cyc, cycles, hist, pending, ing, prev, tm,
          call, peer>>

(***************************************************************************)
(* Feed store: sql/queries/feed_follows.sql (feeds.sql part).              *)
(***************************************************************************)
\* ORDER BY last_fetched_at ASC without NULLS FIRST: PostgreSQL's default for
\* ASC puts the nulls last.
SortsBeforeNullsLast(a, b) ==
    /\ a # NULL
    /\ (b = NULL \/ a < b)

\* ORDER BY last_fetched_at DESC NULLS FIRST.
SortsBeforeDesc(a, b) ==
    /\ b # NULL
    /\ (a = NULL \/ a > b)

\* ORDER BY last_fetched_at ASC NULLS FIRST: a sorts strictly before b.
SortsBefore(a, b) ==
    /\ b # NULL
    /\ (a = NULL \/ a < b)

\* GetNextFeedToFetch: the rows LIMIT 1 may return. Rows that tie on the sort
\* key are in no specified order, so each of them may be the first.
GetNextFeedToFetch(fs) ==
    {f \in DOMAIN fs :
        \A g \in DOMAIN fs :
            ~SortsBefore(fs[g].last_fetched_at, fs[f].last_fetched_at)}

\* MarkFeedFetched without its WHERE clause: every row is updated.
MarkFeedFetchedAll(fs, id, t) ==
    [f \in DOMAIN fs |-> [fs[f] EXCEPT !.updated_at = t, !.last_fetched_at = t]]

\* MarkFeedFetched with last_fetched_at left out of the SET list.
MarkFeedFetchedUpdatedOnly(fs, id, t) ==
    [f \in DOMAIN fs |->
        IF f = id THEN [fs[f] EXCEPT !.updated_at = t] ELSE fs[f]]

\* MarkFeedFetched that sets last_fetched_at and leaves updated_at.
MarkFeedFetchedLastOnly(fs, id, t) ==
    [f \in DOMAIN fs |->
        IF f = id THEN [fs[f] EXCEPT !.last_fetched_at = t] ELSE fs[f]]

\* MarkFeedFetched: UPDATE feeds SET updated_at = NOW(), last_fetched_at = NOW()
\* WHERE id = $1.
MarkFeedFetched(fs, id, t) ==
    [f \in DOMAIN fs |->
        IF f = id
        THEN [fs[f] EXCEPT !.updated_at = t, !.last_fetched_at = t]
        ELSE fs[f]]

\* CreateFeed that gives last_fetched_at the time of the insert.
CreateFeedFetched(fs, id, t, name, url, user) ==
    [f \in DOMAIN fs \cup {id} |->
        IF f = id
        THEN [name |-> name, url |-> url, user_id |-> user, created_at |-> t,
              updated_at |-> t, last_fetched_at |-> t]
        ELSE fs[f]]

\* CreateFeed: INSERT INTO feeds (id, created_at, updated_at, name, url,
\* user_id); last_fetched_at is not given and stays NULL.
CreateFeed(fs, id, t, name, url, user) ==
    [f \in DOMAIN fs \cup {id} |->
        IF f = id
        THEN [name |-> name, url |-> url, user_id |-> user, created_at |-> t,
              updated_at |-> t, last_fetched_at |-> NULL]
        ELSE fs[f]]

\* feeds.url is unique: an insert of a url that is registered is rejected.
FeedUrlTaken(fs, url) == \E f \in DOMAIN fs : fs[f].url = url

(***************************************************************************)
(* Feed fetcher: internal/rssfeed/rssfeed.go.                              *)
(* A text is a sequence of tokens; a token is a run of plain characters or *)
(* one HTML entity.                                                        *)
(***************************************************************************)
\* html.UnescapeString on one token: an entity becomes its character.
UnescapeToken(t) ==
    CASE t = "&amp;" -> "&"
      [] t = "&lt;" -> "<"
      [] t = "&gt;" -> ">"
      [] t = "&quot;" -> "\""
      [] t = "&#39;" -> "'"
      [] OTHER -> t

\* html.UnescapeString: one pass over the text, left to right.
UnescapeString(s) == [i \in 1..Len(s) |-> UnescapeToken(s[i])]

\* strings.Contains(resType, "xml") on a token sequence.
ContainsXml(ct) == \E i \in 1..Len(ct) : ct[i] = "xml"

SampleContentTypes ==
    { <<"application/rss+", "xml">>,
      <<"text/html">>,
      <<>> }

SampleStatus == {200, 300, 500}

\* Items a feed document may hold.
ItemA ==
    [Title |-> <<"Hello">>, Link |-> <<"https://x/a">>,
     PubDate |-> <<"Mon, 02 Jan 2006 15:04:05 -0700">>,
     GUID |-> <<"g1">>, Description |-> <<"d", "&lt;", "b", "&gt;">>]

ItemB ==
    [Title |-> <<"A ", "&amp;", " B">>, Link |-> <<"https://x/b?p=1", "&amp;", "q=2">>,
     PubDate |-> <<"not a date">>,
     GUID |-> <<"g2">>, Description |-> <<"&amp;", "lt;">>]

NoAtom == [Href |-> <<>>, Rel |-> <<>>, Type |-> <<>>]

\* The channel element of a document with the given items.
FullChannel(items) ==
    [Title |-> <<"Tom ", "&amp;", " Jerry">>, Link |-> <<"https://x/?a=1", "&amp;", "b=2">>,
     Description |-> <<"news">>, Generator |-> <<"gen">>, Language |-> <<"en">>,
     LastBuildDate |-> <<"Mon, 02 Jan 2006 15:04:05 MST">>,
     Atom |-> [Href |-> <<"https://x/rss?x", "&amp;", "y">>, Rel |-> <<"self">>,
               Type |-> <<"application/rss+xml">>],
     Items |-> items]

EmptyChannel ==
    [Title |-> <<>>, Link |-> <<>>, Description |-> <<>>, Generator |-> <<>>,
     Language |-> <<>>, LastBuildDate |-> <<>>, Atom |-> NoAtom, Items |-> <<>>]

\* What xml.Unmarshal makes of a response body: an error for a body that is
\* not well-formed, else the RSSFeed with the fields as written in the document.
SampleBodies ==
    { [wellFormed |-> FALSE],
      [wellFormed |-> TRUE, Channel |-> EmptyChannel],
      [wellFormed |-> TRUE, Channel |-> FullChannel(<<ItemA>>)],
      [wellFormed |-> TRUE, Channel |-> FullChannel(<<ItemB, ItemA>>)] }

\* What the network makes of one GET: client.Do fails ("refused", or "timeout"
\* when the context's deadline passes first) and there is no response; or a
\* response arrives, whose body io.ReadAll reads ("ok") or fails to read
\* ("reset"). A part that does not exist (the response of a failed GET, the
\* body that could not be read) is given one fixed value.
Responses ==
    { r \in [transport : {"ok", "refused", "timeout", "reset"},
             contentType : SampleContentTypes,
             status : SampleStatus,
             body : SampleBodies] :
        /\ r.transport \in {"refused", "timeout"}
              => (r.contentType = <<>> /\ r.status = 200)
        /\ r.transport # "ok" => ~r.body.wellFormed }

\* A *RSSFeed: <<>> is nil, <<f>> points to f.
NilFeed == <<>>

\* The channel with every text field unescaped but Link, which FetchFeed
\* leaves as parsed.
UnescapeChannel(c) ==
    [Title |-> UnescapeString(c.Title),
     Link |-> c.Link,
     Description |-> UnescapeString(c.Description),
     Generator |-> UnescapeString(c.Generator),
     Language |-> UnescapeString(c.Language),
     LastBuildDate |-> UnescapeString(c.LastBuildDate),
     Atom |-> [Href |-> UnescapeString(c.Atom.Href),
               Rel |-> UnescapeString(c.Atom.Rel),
               Type |-> UnescapeString(c.Atom.Type)],
     Items |-> [i \in 1..Len(c.Items) |->
                  [Title |-> UnescapeString(c.Items[i].Title),
                   Link |-> UnescapeString(c.Items[i].Link),
                   PubDate |-> UnescapeString(c.Items[i].PubDate),
                   GUID |-> UnescapeString(c.Items[i].GUID),
                   Description |-> UnescapeString(c.Items[i].Description)]]]

\* The warnings FetchFeed prints for a parsed channel.
Warnings(c) ==
    (IF c.Title = <<>> THEN <<"Warning: feed has no title">> ELSE <<>>)
    \o (IF c.Link = <<>> THEN <<"Warning: feed has no link">> ELSE <<>>)
    \o (IF c.Description = <<>> THEN <<"Warning: feed has no description">> ELSE <<>>)
    \o (IF Len(c.Items) = 0 THEN <<"Warning: feed has no items">> ELSE <<>>)

FetchResult(f, e, n, w) == [feed |-> f, err |-> e, requests |-> n, printed |-> w]

\* FetchFeed without its check of feedURL: the GET is issued for any url.
FetchFeedNoUrlCheck(feedURL, r) ==
    IF r.transport \in {"refused", "timeout"}
    THEN FetchResult(NilFeed, "error fetching feed", 1, <<>>)
    ELSE IF ~ContainsXml(r.contentType)
    THEN FetchResult(NilFeed, "invalid content type", 1, <<>>)
    ELSE IF r.status > 299
    THEN FetchResult(NilFeed, "error fetching feed: status", 1, <<>>)
    ELSE IF r.transport = "reset"
    THEN FetchResult(NilFeed, "error reading response body", 1, <<>>)
    ELSE IF ~r.body.wellFormed
    THEN FetchResult(NilFeed, "error unmarshalling XML", 1, <<>>)
    ELSE FetchResult(<<[Channel |-> UnescapeChannel(r.body.Channel)]>>, "nil", 1,
                     Warnings(r.body.Channel))

\* FetchFeed without its check of the Content-Type header.
FetchFeedNoTypeCheck(feedURL, r) ==
    IF feedURL = "" THEN FetchResult(NilFeed, "feed URL is empty", 0, <<>>)
    ELSE IF r.transport \in {"refused", "timeout"}
    THEN FetchResult(NilFeed, "error fetching feed", 1, <<>>)
    ELSE IF r.status > 299
    THEN FetchResult(NilFeed, "error fetching feed: status", 1, <<>>)
    ELSE IF r.transport = "reset"
    THEN FetchResult(NilFeed, "error reading response body", 1, <<>>)
    ELSE IF ~r.body.wellFormed
    THEN FetchResult(NilFeed, "error unmarshalling XML", 1, <<>>)
    ELSE FetchResult(<<[Channel |-> UnescapeChannel(r.body.Channel)]>>, "nil", 1,
                     Warnings(r.body.Channel))

\* FetchFeed(ctx, feedURL) when the network answers the GET with r: the feed
\* and error returned, the number of HTTP requests issued and the warnings
\* printed.
FetchFeed(feedURL, r) ==
    IF feedURL = "" THEN FetchResult(NilFeed, "feed URL is empty", 0, <<>>)
    ELSE IF r.transport \in {"refused", "timeout"}
    THEN FetchResult(NilFeed, "error fetching feed", 1, <<>>)
    ELSE IF ~ContainsXml(r.contentType)
    THEN FetchResult(NilFeed, "invalid content type", 1, <<>>)
    ELSE IF r.status > 299
    THEN FetchResult(NilFeed, "error fetching feed: status", 1, <<>>)
    ELSE IF r.transport = "reset"
    THEN FetchResult(NilFeed, "error reading response body", 1, <<>>)
    ELSE IF ~r.body.wellFormed
    THEN FetchResult(NilFeed, "error unmarshalling XML", 1, <<>>)
    ELSE FetchResult(<<[Channel |-> UnescapeChannel(r.body.Channel)]>>, "nil", 1,
                     Warnings(r.body.Channel))

(***************************************************************************)
(* time.ParseDuration, on a string given as its sequence of characters.    *)
(* Durations are counted in milliseconds; the sample arguments hold no     *)
(* fraction and no unit below the millisecond.                             *)
(***************************************************************************)
DigitChars == <<"0", "1", "2", "3", "4", "5", "6", "7", "8", "9">>

IsDigit(c) == \E i \in 1..10 : DigitChars[i] = c

DigitValue(c) == (CHOOSE i \in 1..10 : DigitChars[i] = c) - 1

IsUnit(u) == u \in {<<"m", "s">>, <<"s">>, <<"m">>, <<"h">>}

UnitValue(u) ==
    CASE u = <<"m", "s">> -> 1
      [] u = <<"s">> -> 1000
      [] u = <<"m">> -> 60000
      [] u = <<"h">> -> 3600000

Drop(s, n) == SubSeq(s, n + 1, Len(s))

\* Length of the longest prefix of s made of digits / of no digit.
RECURSIVE DigitsLen(_)
DigitsLen(s) ==
    IF s # <<>> /\ IsDigit(s[1]) THEN 1 + DigitsLen(Tail(s)) ELSE 0

RECURSIVE UnitLen(_)
UnitLen(s) ==
    IF s # <<>> /\ ~IsDigit(s[1]) /\ s[1] # "." THEN 1 + UnitLen(Tail(s)) ELSE 0

RECURSIVE DecimalValue(_)
DecimalValue(s) ==
    IF s = <<>> THEN 0
    ELSE 10 * DecimalValue(SubSeq(s, 1, Len(s) - 1)) + DigitValue(s[Len(s)])

\* The loop of ParseDuration over the groups <digits><unit>.
RECURSIVE ParseGroups(_, _)
ParseGroups(s, d) ==
    IF s = <<>> THEN [ok |-> TRUE, d |-> d]
    ELSE LET n == DigitsLen(s)
             u == UnitLen(Drop(s, n))
             unit == SubSeq(s, n + 1, n + u)
         IN  IF n = 0 \/ u = 0 \/ ~IsUnit(unit)
             THEN [ok |-> FALSE, d |-> 0]
             ELSE ParseGroups(Drop(s, n + u),
                              d + DecimalValue(SubSeq(s, 1, n)) * UnitValue(unit))

ParseDuration(s) ==
    LET signed == s # <<>> /\ s[1] \in {"-", "+"}
        neg == s # <<>> /\ s[1] = "-"
        rest == IF signed THEN Tail(s) ELSE s
    IN  IF rest = <<"0">> THEN [ok |-> TRUE, d |-> 0]
        ELSE IF rest = <<>> THEN [ok |-> FALSE, d |-> 0]
        ELSE LET g == ParseGroups(rest, 0)
             IN  IF ~g.ok THEN g
                 ELSE [ok |-> TRUE, d |-> IF neg THEN 0 - g.d ELSE g.d]

\* Arguments the agg command is run with.
SampleArgs ==
    { <<>>,
      << <<"1", "m", "3", "0", "s">>, <<"x">> >>,
      << <<"0", "s">> >>,
      << <<"0">> >>,
      << <<"-", "5", "s">> >>,
      << <<"a", "b", "c">> >>,
      << <<"1", "0">> >>,
      << <<"5", "x">> >>,
      << <<>> >> }

(***************************************************************************)
(* Users, feed follows and the configuration file: sql/schema/             *)
(* 003_feed_follows.sql, sql/queries/feed_follows.sql, internal/config.    *)
(***************************************************************************)
\* Config.Name is nil: nobody is logged in.
NilName == "<nil>"

\* The names given to register and login.
SampleNames == {"u1", "u2"}

FollowIds == 1..(MaxFeeds * Cardinality(SampleNames) + 1)

\* uuid.New() for a feed follow: an id no row has.
NewFollowId(fl) == CHOOSE i \in FollowIds : \A r \in fl : r.id # i

FollowResult(fl, e) == [follows |-> fl, err |-> e]

\* CreateFeedFollows on a table declared without UNIQUE (user_id, feed_id).
CreateFeedFollowsNoUnique(fl, us, fs, id, user, f) ==
    IF \E r \in fl : r.id = id
    THEN FollowResult(fl, "unique constraint")
    ELSE IF user \notin us \/ f \notin DOMAIN fs
    THEN FollowResult(fl, "foreign key constraint")
    ELSE FollowResult(fl \cup {[id |-> id, user_id |-> user, feed_id |-> f]}, "nil")

\* CreateFeedFollows: INSERT INTO feed_follows under the constraints of the
\* table: id is the primary key, (user_id, feed_id) is UNIQUE, user_id and
\* feed_id reference users and feeds.
CreateFeedFollows(fl, us, fs, id, user, f) ==
    IF \E r \in fl : r.id = id \/ (r.user_id = user /\ r.feed_id = f)
    THEN FollowResult(fl, "unique constraint")
    ELSE IF user \notin us \/ f \notin DOMAIN fs
    THEN FollowResult(fl, "foreign key constraint")
    ELSE FollowResult(fl \cup {[id |-> id, user_id |-> user, feed_id |-> f]}, "nil")

\* DeleteFeedFollowByUserAndFeed: the rows of the user whose feed has the url
\* are deleted; sql.ErrNoRows when there is none.
DeleteFeedFollowByUserAndFeed(fl, fs, url, user) ==
    LET gone == {r \in fl : /\ r.user_id = user
                            /\ r.feed_id \in DOMAIN fs
                            /\ fs[r.feed_id].url = url}
    IN  IF gone = {} THEN FollowResult(fl, "sql.ErrNoRows")
        ELSE FollowResult(fl \ gone, "nil")

\* GetFeedByURL: the ids of the rows the query may return (LIMIT 1).
GetFeedByURL(fs, url) == {f \in DOMAIN fs : fs[f].url = url}

\* The follow rows of the feeds earlier addfeed commands created.
InitFollows(fs) == {[id |-> f, user_id |-> fs[f].user_id, feed_id |-> f] : f \in DOMAIN fs}

\* No one-shot command has run.
NoDone == [name |-> "", args |-> <<>>, fault |-> 0, err |-> "nil", exit |-> -1,
           at |-> 0, before |-> [users |-> 0, feeds |-> 0, follows |-> 0, posts |-> 0]]

(***************************************************************************)
(* Posts table: sql/schema/005_posts.sql and sql/queries/posts.sql.        *)
(***************************************************************************)
InsertResult(ps, e) == [posts |-> ps, err |-> e]

\* CreatePost with posts.url declared without UNIQUE.
CreatePostNoUnique(ps, fs, row) ==
    IF \E p \in ps : p.id = row.id
    THEN InsertResult(ps, "unique constraint")
    ELSE IF row.feed_id \notin DOMAIN fs
    THEN InsertResult(ps, "foreign key constraint")
    ELSE InsertResult(ps \cup {row}, "nil")

\* CreatePost with the uniqueness declared per feed: UNIQUE (url, feed_id).
CreatePostUniquePerFeed(ps, fs, row) ==
    IF \E p \in ps : p.id = row.id \/ (p.url = row.url /\ p.feed_id = row.feed_id)
    THEN InsertResult(ps, "unique constraint")
    ELSE IF row.feed_id \notin DOMAIN fs
    THEN InsertResult(ps, "foreign key constraint")
    ELSE InsertResult(ps \cup {row}, "nil")

\* CreatePost with posts.published_at declared NOT NULL.
CreatePostDateNotNull(ps, fs, row) ==
    IF \E p \in ps : p.id = row.id \/ p.url = row.url
    THEN InsertResult(ps, "unique constraint")
    ELSE IF row.feed_id \notin DOMAIN fs
    THEN InsertResult(ps, "foreign key constraint")
    ELSE IF row.published_at = NULL
    THEN InsertResult(ps, "not-null constraint")
    ELSE InsertResult(ps \cup {row}, "nil")

\* CreatePost written as an upsert: ON CONFLICT (url) DO UPDATE puts the new
\* row in the place of the stored one.
CreatePostUpsert(ps, fs, row) ==
    IF \E p \in ps : p.id = row.id
    THEN InsertResult(ps, "unique constraint")
    ELSE IF row.feed_id \notin DOMAIN fs
    THEN InsertResult(ps, "foreign key constraint")
    ELSE InsertResult({p \in ps : p.url # row.url} \cup {row}, "nil")

\* CreatePost: INSERT INTO posts ... RETURNING *, under the constraints of the
\* table: id is the primary key, url is UNIQUE, feed_id references feeds(id);
\* description and published_at may be NULL. The table after the statement
\* and the error it returns.
CreatePost(ps, fs, row) ==
    IF \E p \in ps : p.id = row.id \/ p.url = row.url
    THEN InsertResult(ps, "unique constraint")
    ELSE IF row.feed_id \notin DOMAIN fs
    THEN InsertResult(ps, "foreign key constraint")
    ELSE InsertResult(ps \cup {row}, "nil")

(***************************************************************************)
(* Post ingestor. internal/handlers defines no ingestor and scrapeFeeds     *)
(* calls none; it is modelled from section 4.3 of the specification, over  *)
(* CreatePost.                                                             *)
(***************************************************************************)
NoIngest == [feed |-> NoFeed, items |-> <<>>, idx |-> 0, inserted |-> 0,
             skipped |-> 0]

\* Publication dates in the known layouts (RFC 1123 with zone, RFC 1123,
\* ISO 8601) and the timestamp each parses to.
KnownDates ==
    { [text |-> <<"Mon, 02 Jan 2006 15:04:05 -0700">>, time |-> 1],
      [text |-> <<"Mon, 02 Jan 2006 15:04:05 MST">>, time |-> 1],
      [text |-> <<"2006-01-02T15:04:05Z">>, time |-> 1] }

\* The parsed publication date, NULL when the string is in no known layout.
ParsePubDate(text) ==
    IF \E k \in KnownDates : k.text = text
    THEN (CHOOSE k \in KnownDates : k.text = text).time
    ELSE NULL

\* A fresh post id (uuid.New()).
NewPostId(ps) == CHOOSE i \in 1..(Cardinality(ps) + 1) : \A p \in ps : p.id # i

\* The candidate post of one parsed item.
CandidatePost(ps, f, item, t) ==
    [id |-> NewPostId(ps), created_at |-> t, updated_at |-> t,
     title |-> item.Title, url |-> item.Link,
     description |-> item.Description,
     published_at |-> ParsePubDate(item.PubDate), feed_id |-> f]

(***************************************************************************)
(* Wall clock and time.Ticker, in seconds. A run is either untimed (the    *)
(* clock is off: a tick may be ready whenever the loop waits for one) or   *)
(* timed (the clock is on). The channel of a Ticker holds at most one      *)
(* tick: the runtime sends a tick every interval and drops it when the one *)
(* before has not been received.                                           *)
(*   phase: time since the ticker last fired (or was created)              *)
(*   buf:   ticks in timeTicker.C (0 or 1)                                 *)
(*   since: time since scrapeFeeds was last called, up to the interval     *)
(*   fetch: time the running FetchFeed has taken                           *)
(***************************************************************************)
NoClock == [on |-> FALSE, phase |-> 0, buf |-> 0, since |-> 0, fetch |-> 0]

\* context.WithTimeout(context.Background(), 10*time.Second)
FetchTimeout == 10

\* The interval of the ticker whose duration is d milliseconds.
Interval(d) == d \div 1000

\* time.NewTicker(timeBetweenRequests), followed at once by the first call of
\* scrapeFeeds.
NewTicker(c) ==
    IF c.on THEN [c EXCEPT !.phase = 0, !.buf = 0, !.since = 0, !.fetch = 0] ELSE c

\* <-timeTicker.C can return.
TickReady(c) == ~c.on \/ c.buf = 1

\* <-timeTicker.C returns and scrapeFeeds is called.
ReceiveTick(c) == IF c.on THEN [c EXCEPT !.buf = 0, !.since = 0] ELSE c

(***************************************************************************)
(* Initial states: the database as earlier commands and earlier agg runs   *)
(* left it, and an agg command that has not started.                       *)
(***************************************************************************)
NoSel == [ID |-> NoFeed, Name |-> "", Url |-> ""]

\* No second instance runs.
NoPeer == [pc |-> "off", sel |-> NoSel, err |-> "nil", cycles |-> 0, ing |-> NoIngest,
           ran |-> 0]

\* fetched: the urls FetchFeed was called with.
NoOps == [selects |-> 0, marks |-> 0, requests |-> 0, fetched |-> <<>>]

\* Feed i was created at time i by addfeed; a feed that an earlier run has
\* marked carries the time of that mark, and no two marks of one scheduler
\* carry the same time.
InitRow(f, lfa) ==
    [name |-> "feed", url |-> UrlN(f), user_id |-> "u1", created_at |-> f,
     updated_at |-> IF lfa = NULL THEN f ELSE lfa, last_fetched_at |-> lfa]

InitMarks(k) ==
    { l \in [1..k -> {NULL} \cup (MaxFeeds + 1)..(MaxFeeds + k)] :
        LET marked == {f \in 1..k : l[f] # NULL}
        IN  /\ \A f, g \in marked : f # g => l[f] # l[g]
            /\ \A f \in marked : l[f] <= MaxFeeds + Cardinality(marked) }

InitFeedTables ==
    UNION { { [f \in 1..k |-> InitRow(f, l[f])] : l \in InitMarks(k) }
            : k \in 0..MaxFeeds }

Init ==
    /\ feeds \in InitFeedTables
    /\ posts = {}
    /\ follows = InitFollows(feeds)
    /\ users = Users
    /\ config = "u1"
    /\ done = NoDone
    /\ now = 2 * MaxFeeds + 1
    /\ queries \in {"db", "nil"}
    /\ cmd \in [s : {"nil", "state"}, Args : SampleArgs]
    /\ pc = "idle"
    /\ ticker = 0
    /\ aggErr = "none"
    /\ sel = NoSel
    /\ feed = NilFeed
    /\ err = "nil"
    /\ out = <<>>
    /\ cyc = NoOps
    /\ cycles = 0
    /\ hist = <<>>
    /\ pending = [f \in FeedIds |-> {}]
    /\ ing = NoIngest
    /\ prev = NoIngest
    /\ tm = NoClock
    /\ call = <<>>
    /\ peer = NoPeer
    /\ cmds = MainCommands

(***************************************************************************)
(* The agg command: HandlerAgg and scrapeFeeds (internal/handlers).        *)
(***************************************************************************)
\* HandlerAgg without the check of the error of time.ParseDuration: the zero
\* duration it returns with the error goes to time.NewTicker.
HandlerAggUnchecked ==
    /\ pc = "idle"
    /\ IF cmd.s = "nil"
       THEN /\ pc' = "returned"
            /\ aggErr' = "error: State is nil"
            /\ UNCHANGED <<ticker, out>>
       ELSE IF Len(cmd.Args) < 1
       THEN /\ pc' = "returned"
            /\ aggErr' = "error: time between requests required"
            /\ UNCHANGED <<ticker, out>>
       ELSE LET d == ParseDuration(cmd.Args[1])
            IN  IF d.d <= 0
                THEN /\ pc' = "panicked"
                     /\ UNCHANGED <<aggErr, ticker, out>>
                ELSE /\ pc' = "scrape"
                     /\ ticker' = d.d
                     /\ out' = <<"Collecting feeds every">>
                     /\ UNCHANGED aggErr
    /\ tm' = IF pc' = "scrape" THEN NewTicker(tm) ELSE tm
    /\ UNCHANGED <<feeds, posts, follows, now, queries, cmd, cmds, peer, users, config, done, call, sel, feed, err,
                   cyc, cycles, hist, pending, ing, prev>>

\* HandlerAgg up to the loop: the argument checks, time.ParseDuration and
\* time.NewTicker, which panics on an interval that is not positive.
HandlerAgg ==
    /\ pc = "idle"
    /\ IF cmd.s = "nil"
       THEN /\ pc' = "returned"
            /\ aggErr' = "error: State is nil"
            /\ UNCHANGED <<ticker, out>>
       ELSE IF Len(cmd.Args) < 1
       THEN /\ pc' = "returned"
            /\ aggErr' = "error: time between requests required"
            /\ UNCHANGED <<ticker, out>>
       ELSE LET d == ParseDuration(cmd.Args[1])
            IN  IF ~d.ok
                THEN /\ pc' = "returned"
                     /\ aggErr' = "error: invalid duration format"
                     /\ UNCHANGED <<ticker, out>>
                ELSE IF d.d <= 0
                THEN /\ pc' = "panicked"
                     /\ UNCHANGED <<aggErr, ticker, out>>
                ELSE /\ pc' = "scrape"
                     /\ ticker' = d.d
                     /\ out' = <<"Collecting feeds every">>
                     /\ UNCHANGED aggErr
    /\ tm' = IF pc' = "scrape" THEN NewTicker(tm) ELSE tm
    /\ UNCHANGED <<feeds, posts, follows, now, queries, cmd, cmds, peer, users, config, done, call, sel, feed, err,
                   cyc, cycles, hist, pending, ing, prev>>

\* A bug HandlerAgg could have: the loop ends when scrapeFeeds fails.
ReturnExits(e, printed) ==
    /\ err' = e
    /\ out' = printed
    /\ IF e # "nil"
       THEN pc' = "returned" /\ aggErr' = e
       ELSE pc' = "sleeping" /\ UNCHANGED aggErr

\* scrapeFeeds returns e to the loop of HandlerAgg, having printed `printed`:
\* the loop prints the error, if any, and blocks on the ticker.
Return(e, printed) ==
    /\ err' = e
    /\ out' = IF e # "nil"
              THEN Append(printed, "error scraping the feeds")
              ELSE printed
    /\ pc' = "sleeping"
    /\ UNCHANGED aggErr

\* scrapeFeeds, first step, when queries is nil.
ScrapeNilQueries ==
    /\ pc = "scrape"
    /\ queries = "nil"
    /\ Return("error: database queries is nil", out)
    /\ UNCHANGED <<feeds, posts, follows, now, queries, cmd, cmds, peer, users, config, done, call, tm, ticker, sel, feed, cyc,
                   cycles, hist, pending, ing, prev>>

\* A selection that claims the row: the feed is marked by the statement that
\* selects it.
SelectFeedClaiming(f) ==
    /\ pc = "scrape"
    /\ queries = "db"
    /\ f \in GetNextFeedToFetch(feeds)
    /\ sel' = [ID |-> f, Name |-> feeds[f].name, Url |-> feeds[f].url]
    /\ feeds' = MarkFeedFetched(feeds, f, now)
    /\ now' = now + 1
    /\ cyc' = [cyc EXCEPT !.selects = @ + 1]
    /\ hist' = Append(hist, f)
    /\ pending' = [g \in FeedIds |-> pending[g] \ {f}]
    /\ pc' = "marking"
    /\ UNCHANGED <<posts, follows, queries, cmd, cmds, peer, users, config, done, call, tm, ticker,
                   aggErr, feed, err, out, cycles, ing, prev>>

\* GetNextFeedToFetch returns a row.
SelectFeed(f) ==
    /\ pc = "scrape"
    /\ queries = "db"
    /\ f \in GetNextFeedToFetch(feeds)
    /\ sel' = [ID |-> f, Name |-> feeds[f].name, Url |-> feeds[f].url]
    /\ cyc' = [cyc EXCEPT !.selects = @ + 1]
    /\ hist' = Append(hist, f)
    /\ pending' = [g \in FeedIds |-> pending[g] \ {f}]
    /\ pc' = "marking"
    /\ UNCHANGED <<feeds, posts, follows, now, queries, cmd, cmds, peer, users, config, done, call, tm, ticker, aggErr, feed,
                   err, out, cycles, ing, prev>>

\* scrapeFeeds without the errors.Is(err, sql.ErrNoRows) branch.
SelectNoRowsAsError ==
    /\ pc = "scrape"
    /\ queries = "db"
    /\ DOMAIN feeds = {}
    /\ cyc' = [cyc EXCEPT !.selects = @ + 1]
    /\ Return("error getting next feed to fetch", out)
    /\ UNCHANGED <<feeds, posts, follows, now, queries, cmd, cmds, peer, users, config, done, call, tm, ticker, sel, feed,
                   cycles, hist, pending, ing, prev>>

\* GetNextFeedToFetch returns sql.ErrNoRows: the table is empty.
SelectNoRows ==
    /\ pc = "scrape"
    /\ queries = "db"
    /\ DOMAIN feeds = {}
    /\ cyc' = [cyc EXCEPT !.selects = @ + 1]
    /\ Return("nil", Append(out, "No feeds found in database."))
    /\ UNCHANGED <<feeds, posts, follows, now, queries, cmd, cmds, peer, users, config, done, call, tm, ticker, sel, feed,
                   cycles, hist, pending, ing, prev>>

\* GetNextFeedToFetch fails with another error: the database is unavailable.
SelectError ==
    /\ pc = "scrape"
    /\ queries = "db"
    /\ cyc' = [cyc EXCEPT !.selects = @ + 1]
    /\ Return("error getting next feed to fetch", out)
    /\ UNCHANGED <<feeds, posts, follows, now, queries, cmd, cmds, peer, users, config, done, call, tm, ticker, sel, feed,
                   cycles, hist, pending, ing, prev>>

\* scrapeFeeds that does not mark the feed before it fetches it: this step
\* only prints the notice and starts the fetch.
MarkFetchedAfterFetch ==
    /\ pc = "marking"
    /\ out' = Append(out, "Fetching feed")
    /\ pc' = "fetching"
    /\ UNCHANGED <<feeds, posts, follows, now, queries, cmd, cmds, peer, users, config, done, call, tm, ticker, aggErr, sel,
                   feed, err, cyc, cycles, hist, pending, ing, prev>>

\* MarkFeedFetched succeeds; NOW() is the time of the update, and the clock
\* has moved on before the next statement reads it.
MarkFetched ==
    /\ pc = "marking"
    /\ feeds' = MarkFeedFetched(feeds, sel.ID, now)
    /\ now' = now + 1
    /\ cyc' = [cyc EXCEPT !.marks = @ + 1]
    /\ pending' = [pending EXCEPT ![sel.ID] =
                      {g \in DOMAIN feeds \ {sel.ID} :
                          SortsBefore(feeds[g].last_fetched_at, now)}]
    /\ out' = Append(out, "Fetching feed")
    /\ pc' = "fetching"
    /\ UNCHANGED <<posts, follows, queries, cmd, cmds, peer, users, config, done, call, tm, ticker, aggErr, sel, feed, err,
                   cycles, hist, ing, prev>>

\* scrapeFeeds ending the process when MarkFeedFetched fails (log.Fatal).
MarkErrorFatal ==
    /\ pc = "marking"
    /\ cyc' = [cyc EXCEPT !.marks = @ + 1]
    /\ err' = "error marking feed as fetched"
    /\ pc' = "returned"
    /\ aggErr' = "error marking feed as fetched"
    /\ UNCHANGED <<feeds, posts, follows, now, queries, cmd, cmds, peer, users, config, done, call, tm, ticker, sel, feed,
                   out, cycles, hist, pending, ing, prev>>

\* MarkFeedFetched fails.
MarkError ==
    /\ pc = "marking"
    /\ cyc' = [cyc EXCEPT !.marks = @ + 1]
    /\ Return("error marking feed as fetched", out)
    /\ UNCHANGED <<feeds, posts, follows, now, queries, cmd, cmds, peer, users, config, done, call, tm, ticker, sel, feed,
                   cycles, hist, pending, ing, prev>>

\* The lines scrapeFeeds prints for a fetched feed: its name, one line per
\* item, an empty line.
PrintFeed(f) ==
    <<"Feed">> \o [i \in 1..Len(f[1].Channel.Items) |-> "item"] \o <<"">>

\* scrapeFeeds that gives FetchFeed a context without deadline: the GET never
\* times out.
FetchNoDeadline(r) ==
    /\ pc = "fetching"
    /\ tm.on => r.transport # "timeout"
    /\ tm' = [tm EXCEPT !.fetch = 0]
    /\ LET res == FetchFeed(sel.Url, r)
       IN  /\ cyc' = [cyc EXCEPT !.requests = @ + res.requests,
                                 !.fetched = Append(@, sel.Url)]
           /\ feed' = res.feed
           /\ IF res.err # "nil"
              THEN Return("error fetching the marked feed", out)
              ELSE Return("nil", out \o res.printed \o PrintFeed(res.feed))
    /\ UNCHANGED <<feeds, posts, follows, now, queries, cmd, cmds, peer, users, config, done, call, ticker, sel, cycles,
                   hist, pending, ing, prev>>

\* rssfeed.FetchFeed(ctx, feedURL) and the rest of scrapeFeeds: on an error
\* scrapeFeeds returns it; on success it prints the title of every item.
\* In a timed run the context's deadline ends the GET after FetchTimeout.
Fetch(r) ==
    /\ pc = "fetching"
    /\ tm.on => /\ r.transport = "timeout" => tm.fetch = FetchTimeout
                /\ tm.fetch = FetchTimeout => r.transport \in {"timeout", "reset"}
    /\ tm' = [tm EXCEPT !.fetch = 0]
    /\ LET res == FetchFeed(sel.Url, r)
       IN  /\ cyc' = [cyc EXCEPT !.requests = @ + res.requests,
                                 !.fetched = Append(@, sel.Url)]
           /\ feed' = res.feed
           /\ IF res.err # "nil"
              THEN Return("error fetching the marked feed", out)
              ELSE Return("nil", out \o res.printed \o PrintFeed(res.feed))
    /\ UNCHANGED <<feeds, posts, follows, now, queries, cmd, cmds, peer, users, config, done, call, ticker, sel, cycles,
                   hist, pending, ing, prev>>

\* <-timeTicker.C: the ticker ticks and the loop calls scrapeFeeds again. The
\* locals of the finished call are dead: the model clears them.
Tick ==
    /\ pc = "sleeping"
    /\ cycles + 1 < MaxCycles
    /\ TickReady(tm)
    /\ tm' = ReceiveTick(tm)
    /\ pc' = "scrape"
    /\ cycles' = cycles + 1
    /\ sel' = NoSel
    /\ feed' = NilFeed
    /\ err' = "nil"
    /\ out' = <<>>
    /\ cyc' = NoOps
    /\ UNCHANGED <<feeds, posts, follows, now, queries, cmd, cmds, peer, users, config, done, call, ticker, aggErr, hist,
                   pending, ing, prev>>

\* The addfeed command, run by the logged-in user while agg runs:
\* HandlerAddFeed creates the feed and HandlerFollow follows it.
AddFeed(user, name, url) ==
    /\ Cardinality(DOMAIN feeds) < MaxFeeds
    /\ Cardinality({f \in DOMAIN feeds : feeds[f].created_at > 2 * MaxFeeds}) < MaxAdds
    /\ ~FeedUrlTaken(feeds, url)
    /\ LET id == CHOOSE i \in FeedIds \ DOMAIN feeds :
                    \A j \in FeedIds \ DOMAIN feeds : i <= j
       IN  /\ feeds' = CreateFeed(feeds, id, now, name, url, user)
           /\ follows' = CreateFeedFollows(follows, users, feeds', NewFollowId(follows),
                                            user, id).follows
    /\ now' = now + 1
    /\ UNCHANGED <<posts, queries, cmd, cmds, peer, users, config, done, call, tm, pc, ticker, aggErr, sel, feed, err, out,
                   cyc, cycles, hist, pending, ing, prev>>

(***************************************************************************)
(* Post ingestor (section 4.3 of the specification): ingest(feed,          *)
(* parsed_feed), one insert per item.                                      *)
(***************************************************************************)
\* The items of the parsed feeds the ingestor is given: what FetchFeed returns
\* for a document with up to MaxItems items.
ParsedItemSeqs ==
    { UnescapeChannel(FullChannel(items)).Items :
        items \in UNION {[1..n -> {ItemA, ItemB}] : n \in 0..MaxItems} }

\* ingest(feed, parsed_feed) starts.
IngestStart(f, items) ==
    /\ pc = "ingestor"
    /\ ing.idx = 0
    /\ f \in DOMAIN feeds
    /\ ing' = [feed |-> f, items |-> items, idx |-> 1, inserted |-> 0,
               skipped |-> 0]
    /\ UNCHANGED <<feeds, posts, follows, now, queries, cmd, cmds, peer, users, config, done, call, tm, pc, ticker, aggErr,
                   sel, feed, err, out, cyc, cycles, hist, pending, prev>>

\* The next item: it is skipped when it has no title or no url; else its
\* candidate post is inserted. A uniqueness violation means the post is
\* already present; any other insert error skips the item.
IngestItem ==
    /\ pc = "ingestor"
    /\ ing.idx >= 1
    /\ ing.idx <= Len(ing.items)
    /\ LET item == ing.items[ing.idx]
           r == CreatePost(posts, feeds, CandidatePost(posts, ing.feed, item, now))
       IN  IF item.Title = <<>> \/ item.Link = <<>>
           THEN /\ ing' = [ing EXCEPT !.idx = @ + 1, !.skipped = @ + 1]
                /\ UNCHANGED posts
           ELSE /\ posts' = r.posts
                /\ ing' = IF r.err = "nil"
                          THEN [ing EXCEPT !.idx = @ + 1, !.inserted = @ + 1]
                          ELSE [ing EXCEPT !.idx = @ + 1, !.skipped = @ + 1]
    /\ UNCHANGED <<feeds, follows, now, queries, cmd, cmds, peer, users, config, done, call, tm, pc, ticker, aggErr, sel,
                   feed, err, out, cyc, cycles, hist, pending, prev>>

\* All items are done: the report is returned.
IngestEnd ==
    /\ pc = "ingestor"
    /\ ing.idx > Len(ing.items)
    /\ prev' = [ing EXCEPT !.idx = 0]
    /\ ing' = NoIngest
    /\ UNCHANGED <<feeds, posts, follows, now, queries, cmd, cmds, peer, users, config, done, call, tm, pc, ticker, aggErr,
                   sel, feed, err, out, cyc, cycles, hist, pending>>

Next ==
    \/ HandlerAgg
    \/ ScrapeNilQueries
    \/ \E f \in FeedIds : SelectFeed(f)
    \/ SelectNoRows
    \/ SelectError
    \/ MarkFetched
    \/ MarkError
    \/ \E r \in Responses : Fetch(r)
    \/ Tick
    \/ \E u \in Users, url \in {"", "http://new"} : AddFeed(u, "feed", url)

Spec == Init /\ [][Next]_vars

\* The agg command with the storage available: no statement fails.
InitUp == Init /\ queries = "db" /\ cmd.s = "state"

NextUp ==
    \/ HandlerAgg
    \/ \E f \in FeedIds : SelectFeed(f)
    \/ SelectNoRows
    \/ MarkFetched
    \/ \E r \in Responses : Fetch(r)
    \/ Tick
    \/ \E u \in Users, url \in {"", "http://new"} : AddFeed(u, "feed", url)

SpecUp == InitUp /\ [][NextUp]_vars

\* One step of the loop of HandlerAgg with the storage available: a step of
\* scrapeFeeds, or the tick the loop waits for.
ScrapeLoop ==
    \/ \E f \in FeedIds : SelectFeed(f)
    \/ SelectNoRows
    \/ MarkFetched
    \/ \E r \in Responses : Fetch(r)
    \/ Tick

\* The agg command with the storage available and a fixed set of feeds; once
\* the loop is entered the process is scheduled and its ticker ticks.
NextFixed ==
    \/ HandlerAgg
    \/ ScrapeLoop

SpecFixed == InitUp /\ [][NextFixed]_vars /\ WF_vars(ScrapeLoop)

\* One second passes, while FetchFeed waits for the network or while the loop
\* waits for a tick that is not there yet: the statements of the storage take
\* no time to speak of and a tick that is ready is received at once. The
\* ticker fires every interval: its tick is buffered, or dropped when the
\* buffer is full. A FetchFeed does not outlast the deadline of its context.
Elapse ==
    /\ tm.on
    /\ \/ pc = "fetching" /\ tm.fetch < FetchTimeout
       \/ pc = "sleeping" /\ tm.buf = 0
    /\ LET fires == tm.phase + 1 = Interval(ticker)
       IN  tm' = [on |-> TRUE,
                  phase |-> IF fires THEN 0 ELSE tm.phase + 1,
                  buf |-> IF fires THEN 1 ELSE tm.buf,
                  since |-> IF tm.since < Interval(ticker)
                            THEN tm.since + 1 ELSE tm.since,
                  fetch |-> IF pc = "fetching" THEN tm.fetch + 1 ELSE 0]
    /\ UNCHANGED <<feeds, posts, follows, now, queries, cmd, cmds, peer, users, config, done, call, pc, ticker, aggErr,
                   sel, feed, err, out, cyc, cycles, hist, pending, ing, prev>>

\* agg 2s, timed, with the storage available and a fixed set of feeds.
InitTimed ==
    /\ feeds \in InitFeedTables
    /\ posts = {}
    /\ follows = InitFollows(feeds)
    /\ users = Users
    /\ config = "u1"
    /\ done = NoDone
    /\ now = 2 * MaxFeeds + 1
    /\ queries = "db"
    /\ cmd = [s |-> "state", Args |-> << <<"2", "s">> >>]
    /\ pc = "idle"
    /\ ticker = 0
    /\ aggErr = "none"
    /\ sel = NoSel
    /\ feed = NilFeed
    /\ err = "nil"
    /\ out = <<>>
    /\ cyc = NoOps
    /\ cycles = 0
    /\ hist = <<>>
    /\ pending = [f \in FeedIds |-> {}]
    /\ ing = NoIngest
    /\ prev = NoIngest
    /\ tm = [NoClock EXCEPT !.on = TRUE]
    /\ call = <<>>
    /\ peer = NoPeer
    /\ cmds = MainCommands

NextTimed ==
    \/ HandlerAgg
    \/ ScrapeLoop
    \/ Elapse

SpecTimed == InitTimed /\ [][NextTimed]_vars

\* The deadline of the context passes: the GET is cancelled.
FetchDeadline == \E r \in Responses : r.transport = "timeout" /\ Fetch(r)

\* The steps the process takes by itself once it is scheduled: the statements
\* of scrapeFeeds on an available storage, the cancellation of the GET at the
\* deadline, the receipt of a tick that is ready. An answer of the network
\* is not among them.
SchedulerSteps ==
    \/ \E f \in FeedIds : SelectFeed(f)
    \/ SelectNoRows
    \/ MarkFetched
    \/ FetchDeadline
    \/ Tick

\* The timed run of agg 2s in which time passes and the process is scheduled.
SpecLive == InitTimed /\ [][NextTimed]_vars /\ WF_vars(Elapse) /\ WF_vars(SchedulerSteps)

(***************************************************************************)
(* The one-shot commands (internal/handlers, main): each run of the        *)
(* program executes one command against the database and the              *)
(* configuration file and exits. fault is the database or file operation   *)
(* of the run that fails, counted from 1; 0 when none fails.               *)
(***************************************************************************)
AggVars == <<queries, cmd, cmds, pc, ticker, aggErr, sel, feed, err, out, cyc, cycles, hist,
             pending, ing, prev, tm, call, peer>>

\* The clock when the last command of a bounded session has run.
CliEnd == 2 * MaxFeeds + 1 + MaxCmds

CliUrls == {UrlN(1), UrlN(2)}

\* The number of rows of each table.
Rows == [users |-> Cardinality(users), feeds |-> Cardinality(DOMAIN feeds),
         follows |-> Cardinality(follows), posts |-> Cardinality(posts)]

\* What a command that ends leaves in done: its name and arguments, the fault
\* of the run, the error and the exit code, and the time and the row counts
\* when it started.
Done(name, args, fault, e, x) ==
    [name |-> name, args |-> args, fault |-> fault, err |-> e, exit |-> x,
     at |-> now, before |-> Rows]

\* MiddlewareLoggedIn that calls the handler without GetUser.
MiddlewareLoggedInNoLookup(s, cfg, us, fault) ==
    IF s = "nil" THEN "error: State is nil"
    ELSE IF s = "noconfig" THEN "error: Config is nil"
    ELSE IF cfg = NilName THEN "error: user is not logged in"
    ELSE IF cfg = "" THEN "error: username is empty"
    ELSE "nil"

\* MiddlewareLoggedIn: the error returned instead of calling the handler,
\* "nil" when the handler is called with the user the configuration names.
\* s is "nil" for a nil state, "noconfig" for a state whose Config is nil.
MiddlewareLoggedIn(s, cfg, us, fault) ==
    IF s = "nil" THEN "error: State is nil"
    ELSE IF s = "noconfig" THEN "error: Config is nil"
    ELSE IF cfg = NilName THEN "error: user is not logged in"
    ELSE IF cfg = "" THEN "error: username is empty"
    ELSE IF fault = 1 \/ cfg \notin us THEN "error getting user from db"
    ELSE "nil"

\* HandlerLogin that logs in a name it did not find in the database.
HandlerLoginUnchecked(args, fault) ==
    /\ pc = "cli"
    /\ now < CliEnd
    /\ now' = now + 1
    /\ IF Len(args) = 0
       THEN /\ done' = Done("login", args, fault, "error: no command input", 1)
            /\ config' = config
       ELSE /\ done' = Done("login", args, fault, "nil", 0)
            /\ config' = args[1]
    /\ UNCHANGED <<feeds, posts, follows, users>>
    /\ UNCHANGED AggVars

\* login <username>. Operations: 1 GetUser, 2 SetUser.
HandlerLogin(args, fault) ==
    /\ pc = "cli"
    /\ now < CliEnd
    /\ now' = now + 1
    /\ IF Len(args) = 0
       THEN /\ done' = Done("login", args, fault, "error: no command input", 1)
            /\ config' = config
       ELSE IF fault = 1
       THEN /\ done' = Done("login", args, fault, "error getting user from db", 1)
            /\ config' = config
       ELSE IF args[1] \notin users
       THEN /\ done' = Done("login", args, fault, "error: user doesn't exist", 1)
            /\ config' = config
       ELSE IF fault = 2
       THEN /\ done' = Done("login", args, fault, "error setting username", 1)
            /\ config' = config
       ELSE /\ done' = Done("login", args, fault, "nil", 0)
            /\ config' = args[1]
    /\ UNCHANGED <<feeds, posts, follows, users>>
    /\ UNCHANGED AggVars

\* register <username>. Operations: 1 GetUser, 2 CreateUser, 3 SetUser.
HandlerRegister(args, fault) ==
    /\ pc = "cli"
    /\ now < CliEnd
    /\ now' = now + 1
    /\ IF Len(args) = 0
       THEN /\ done' = Done("register", args, fault, "error: no command input", 1)
            /\ UNCHANGED <<users, config>>
       ELSE IF fault = 1
       THEN /\ done' = Done("register", args, fault, "error getting user from db", 1)
            /\ UNCHANGED <<users, config>>
       ELSE IF args[1] \in users
       THEN /\ done' = Done("register", args, fault, "error: user exists", 1)
            /\ UNCHANGED <<users, config>>
       ELSE IF fault = 2
       THEN /\ done' = Done("register", args, fault, "error registering user", 1)
            /\ UNCHANGED <<users, config>>
       ELSE IF fault = 3
       THEN /\ done' = Done("register", args, fault, "error setting username", 1)
            /\ users' = users \cup {args[1]}
            /\ config' = config
       ELSE /\ done' = Done("register", args, fault, "nil", 0)
            /\ users' = users \cup {args[1]}
            /\ config' = args[1]
    /\ UNCHANGED <<feeds, posts, follows>>
    /\ UNCHANGED AggVars

\* ON DELETE CASCADE of feeds.user_id: the feeds whose owner is left.
CascadeFeeds(fs, us) == [f \in {g \in DOMAIN fs : fs[g].user_id \in us} |-> fs[f]]

\* ON DELETE CASCADE of feed_follows.user_id and feed_follows.feed_id.
CascadeFollows(fl, us, fs) == {r \in fl : r.user_id \in us /\ r.feed_id \in DOMAIN fs}

\* posts.feed_id declared without ON DELETE CASCADE: the posts stay.
CascadePostsNone(ps, fs) == ps

\* ON DELETE CASCADE of posts.feed_id.
CascadePosts(ps, fs) == {p \in ps : p.feed_id \in DOMAIN fs}

\* Reset: DELETE FROM users, the users that are left.
Reset(us) == {}

\* reset. Operations: 1 Reset.
HandlerReset(fault) ==
    /\ pc = "cli"
    /\ now < CliEnd
    /\ now' = now + 1
    /\ IF fault = 1
       THEN /\ done' = Done("reset", <<>>, fault, "error resetting database", 1)
            /\ UNCHANGED <<users, feeds, follows, posts>>
       ELSE /\ done' = Done("reset", <<>>, fault, "nil", 0)
            /\ users' = Reset(users)
            /\ feeds' = CascadeFeeds(feeds, users')
            /\ follows' = CascadeFollows(follows, users', feeds')
            /\ posts' = CascadePosts(posts, feeds')
    /\ config' = config
    /\ UNCHANGED AggVars

\* The body of HandlerFollow, called with the user: the table after it and
\* the error returned. getFails, createFail: GetFeedByURL, CreateFeedFollows
\* fails for a reason of the database.
FollowBody(fl, us, fs, cfg, args, getFails, createFails) ==
    IF Len(args) = 0 THEN FollowResult(fl, "error: no command input")
    ELSE IF cfg = NilName THEN FollowResult(fl, "error: current user is nil/not logged in")
    ELSE IF getFails \/ GetFeedByURL(fs, args[1]) = {}
    THEN FollowResult(fl, "error getting feed from db")
    ELSE LET f == CHOOSE g \in GetFeedByURL(fs, args[1]) : TRUE
             r == CreateFeedFollows(fl, us, fs, NewFollowId(fl), cfg, f)
         IN  IF createFails THEN FollowResult(fl, "error creating feed follow")
             ELSE IF r.err = "unique constraint"
             THEN FollowResult(fl, "error: you are already following this feed")
             ELSE IF r.err # "nil" THEN FollowResult(fl, "error creating feed follow")
             ELSE r

\* follow <url>. Operations: 1 GetUser, 2 GetFeedByURL, 3 CreateFeedFollows.
HandlerFollow(args, fault) ==
    /\ pc = "cli"
    /\ now < CliEnd
    /\ now' = now + 1
    /\ LET mw == MiddlewareLoggedIn("state", config, users, fault)
           r == FollowBody(follows, users, feeds, config, args, fault = 2, fault = 3)
       IN  IF mw # "nil"
           THEN /\ done' = Done("follow", args, fault, mw, 1)
                /\ follows' = follows
           ELSE /\ done' = Done("follow", args, fault, r.err, IF r.err = "nil" THEN 0 ELSE 1)
                /\ follows' = r.follows
    /\ UNCHANGED <<feeds, posts, users, config>>
    /\ UNCHANGED AggVars

\* HandlerAddFeed that does not call HandlerFollow.
HandlerAddFeedNoFollow(args, fault) ==
    /\ pc = "cli"
    /\ now < CliEnd
    /\ now' = now + 1
    /\ Cardinality(DOMAIN feeds) < MaxFeeds
    /\ LET mw == MiddlewareLoggedIn("state", config, users, fault)
           id == CHOOSE i \in FeedIds \ DOMAIN feeds :
                    \A j \in FeedIds \ DOMAIN feeds : i <= j
       IN  IF mw # "nil"
           THEN /\ done' = Done("addfeed", args, fault, mw, 1)
                /\ UNCHANGED <<feeds, follows>>
           ELSE IF Len(args) < 2
           THEN /\ done' = Done("addfeed", args, fault, "error: feed name and url args required", 1)
                /\ UNCHANGED <<feeds, follows>>
           ELSE IF fault = 2 \/ FeedUrlTaken(feeds, args[2])
           THEN /\ done' = Done("addfeed", args, fault, "error adding new feed to database", 1)
                /\ UNCHANGED <<feeds, follows>>
           ELSE /\ feeds' = CreateFeed(feeds, id, now, args[1], args[2], config)
                /\ follows' = follows
                /\ done' = Done("addfeed", args, fault, "nil", 0)
    /\ UNCHANGED <<posts, users, config>>
    /\ UNCHANGED AggVars

\* addfeed <name> <url>. Operations: 1 GetUser, 2 CreateFeed, 3 GetFeedByURL,
\* 4 CreateFeedFollows. An error of the follow is printed as a warning and
\* the command returns nil.
HandlerAddFeed(args, fault) ==
    /\ pc = "cli"
    /\ now < CliEnd
    /\ now' = now + 1
    /\ Cardinality(DOMAIN feeds) < MaxFeeds
    /\ LET mw == MiddlewareLoggedIn("state", config, users, fault)
           id == CHOOSE i \in FeedIds \ DOMAIN feeds :
                    \A j \in FeedIds \ DOMAIN feeds : i <= j
       IN  IF mw # "nil"
           THEN /\ done' = Done("addfeed", args, fault, mw, 1)
                /\ UNCHANGED <<feeds, follows>>
           ELSE IF Len(args) < 2
           THEN /\ done' = Done("addfeed", args, fault, "error: feed name and url args required", 1)
                /\ UNCHANGED <<feeds, follows>>
           ELSE IF fault = 2 \/ FeedUrlTaken(feeds, args[2])
           THEN /\ done' = Done("addfeed", args, fault, "error adding new feed to database", 1)
                /\ UNCHANGED <<feeds, follows>>
           ELSE /\ feeds' = CreateFeed(feeds, id, now, args[1], args[2], config)
                /\ LET r == FollowBody(follows, users, feeds', config, <<args[2]>>,
                                       fault = 3, fault = 4)
                   IN  /\ follows' = r.follows
                       /\ done' = Done("addfeed", args, fault, "nil", 0)
    /\ UNCHANGED <<posts, users, config>>
    /\ UNCHANGED AggVars

\* unfollow <url>. Operations: 1 GetUser, 2 DeleteFeedFollowByUserAndFeed.
HandlerUnfollow(args, fault) ==
    /\ pc = "cli"
    /\ now < CliEnd
    /\ now' = now + 1
    /\ LET mw == MiddlewareLoggedIn("state", config, users, fault)
       IN  IF mw # "nil"
           THEN /\ done' = Done("unfollow", args, fault, mw, 1)
                /\ follows' = follows
           ELSE IF Len(args) < 1
           THEN /\ done' = Done("unfollow", args, fault, "error: feed url required", 1)
                /\ follows' = follows
           ELSE IF fault = 2
           THEN /\ done' = Done("unfollow", args, fault, "error unfollowing feed", 1)
                /\ follows' = follows
           ELSE LET r == DeleteFeedFollowByUserAndFeed(follows, feeds, args[1], config)
                IN  /\ follows' = r.follows
                    /\ done' = Done("unfollow", args, fault,
                                     IF r.err = "nil" THEN "nil"
                                     ELSE "is not following this feed!", 0)
    /\ UNCHANGED <<feeds, posts, users, config>>
    /\ UNCHANGED AggVars

\* A post of feed f is stored: ingest of one item (section 4.3).
SavePost(f, item) ==
    /\ pc = "cli"
    /\ now < CliEnd
    /\ now' = now + 1
    /\ f \in DOMAIN feeds
    /\ posts' = CreatePost(posts, feeds, CandidatePost(posts, f, item, now)).posts
    /\ posts' # posts
    /\ UNCHANGED <<feeds, follows, users, config, done>>
    /\ UNCHANGED AggVars

\* A fresh installation: an empty database, no configured user.
InitCli ==
    /\ feeds = [f \in {} |-> 0]
    /\ posts = {}
    /\ follows = {}
    /\ users = {}
    /\ config = NilName
    /\ done = NoDone
    /\ now = 2 * MaxFeeds + 1
    /\ queries = "db"
    /\ cmd = [s |-> "state", Args |-> <<>>]
    /\ pc = "cli"
    /\ ticker = 0
    /\ aggErr = "none"
    /\ sel = NoSel
    /\ feed = NilFeed
    /\ err = "nil"
    /\ out = <<>>
    /\ cyc = NoOps
    /\ cycles = 0
    /\ hist = <<>>
    /\ pending = [f \in FeedIds |-> {}]
    /\ ing = NoIngest
    /\ prev = NoIngest
    /\ tm = NoClock
    /\ call = <<>>
    /\ peer = NoPeer
    /\ cmds = MainCommands

NameArgs == {<<>>} \cup {<<n>> : n \in SampleNames}

UrlArgs == {<<>>} \cup {<<u>> : u \in CliUrls}

FeedArgs == {<<"feed">>} \cup {<<"feed", u>> : u \in CliUrls}

NextCli ==
    \/ \E args \in NameArgs, fault \in 0..2 : HandlerLogin(args, fault)
    \/ \E args \in NameArgs, fault \in 0..3 : HandlerRegister(args, fault)
    \/ \E fault \in 0..1 : HandlerReset(fault)
    \/ \E args \in UrlArgs, fault \in 0..3 : HandlerFollow(args, fault)
    \/ \E args \in FeedArgs, fault \in 0..4 : HandlerAddFeed(args, fault)
    \/ \E args \in UrlArgs, fault \in 0..2 : HandlerUnfollow(args, fault)
    \/ \E f \in FeedIds : SavePost(f, UnescapeChannel(FullChannel(<<ItemA>>)).Items[1])

SpecCli == InitCli /\ [][NextCli]_vars

(***************************************************************************)
(* A second scheduler instance (a second agg process) on the same          *)
(* database: the same scrapeFeeds, its locals kept in peer. Every          *)
(* statement of the storage is one atomic step.                            *)
(***************************************************************************)
PeerFrame == <<follows, users, config, done, queries, cmd, cmds, pc, ticker, aggErr, sel, feed,
               err, out, cyc, cycles, hist, pending, ing, prev, tm, call>>

\* GetNextFeedToFetch returns a row to the second instance.
PeerSelect(f) ==
    /\ peer.pc = "scrape"
    /\ f \in GetNextFeedToFetch(feeds)
    /\ peer' = [peer EXCEPT !.pc = "marking",
                            !.sel = [ID |-> f, Name |-> feeds[f].name, Url |-> feeds[f].url]]
    /\ UNCHANGED <<feeds, posts, now>>
    /\ UNCHANGED PeerFrame

\* GetNextFeedToFetch returns sql.ErrNoRows to the second instance.
PeerSelectNoRows ==
    /\ peer.pc = "scrape"
    /\ DOMAIN feeds = {}
    /\ peer' = [peer EXCEPT !.pc = "sleeping"]
    /\ UNCHANGED <<feeds, posts, now>>
    /\ UNCHANGED PeerFrame

\* MarkFeedFetched by the second instance.
PeerMark ==
    /\ peer.pc = "marking"
    /\ feeds' = MarkFeedFetched(feeds, peer.sel.ID, now)
    /\ now' = now + 1
    /\ peer' = [peer EXCEPT !.pc = "fetching"]
    /\ UNCHANGED posts
    /\ UNCHANGED PeerFrame

\* rssfeed.FetchFeed and the rest of scrapeFeeds in the second instance.
PeerFetch ==
    /\ peer.pc = "fetching"
    /\ \E e \in {FetchFeed(peer.sel.Url, r).err : r \in Responses} :
          peer' = [peer EXCEPT !.pc = "sleeping",
                               !.err = IF e # "nil"
                                       THEN "error fetching the marked feed" ELSE "nil"]
    /\ UNCHANGED <<feeds, posts, now>>
    /\ UNCHANGED PeerFrame

\* <-timeTicker.C in the second instance.
PeerTick ==
    /\ peer.pc = "sleeping"
    /\ peer.cycles + 1 < MaxPeerCycles
    /\ peer' = [peer EXCEPT !.pc = "scrape", !.sel = NoSel, !.err = "nil",
                            !.cycles = @ + 1]
    /\ UNCHANGED <<feeds, posts, now>>
    /\ UNCHANGED PeerFrame

\* agg with a valid duration and the storage available, over feeds that were
\* added and never fetched; a second instance runs its loop on the same
\* database, or there is none.
InitTwo ==
    /\ feeds \in {t \in InitFeedTables : \A f \in DOMAIN t : t[f].last_fetched_at = NULL}
    /\ posts = {}
    /\ follows = InitFollows(feeds)
    /\ users = Users
    /\ config = "u1"
    /\ done = NoDone
    /\ now = 2 * MaxFeeds + 1
    /\ queries = "db"
    /\ cmd = [s |-> "state", Args |-> << <<"2", "s">> >>]
    /\ pc = "idle"
    /\ ticker = 0
    /\ aggErr = "none"
    /\ sel = NoSel
    /\ feed = NilFeed
    /\ err = "nil"
    /\ out = <<>>
    /\ cyc = NoOps
    /\ cycles = 0
    /\ hist = <<>>
    /\ pending = [f \in FeedIds |-> {}]
    /\ ing = NoIngest
    /\ prev = NoIngest
    /\ tm = NoClock
    /\ call = <<>>
    /\ peer \in {NoPeer, [NoPeer EXCEPT !.pc = "scrape"]}
    /\ cmds = MainCommands

NextTwo ==
    \/ HandlerAgg
    \/ ScrapeLoop
    \/ \E f \in FeedIds : PeerSelect(f)
    \/ PeerSelectNoRows
    \/ PeerMark
    \/ PeerFetch
    \/ PeerTick

SpecTwo == InitTwo /\ [][NextTwo]_vars

\* ingest(feed, parsed_feed) starts in the second instance.
PeerIngestStart(f, items) ==
    /\ peer.pc = "ingestor"
    /\ peer.ing.idx = 0
    /\ peer.ran = 0
    /\ f \in DOMAIN feeds
    /\ peer' = [peer EXCEPT !.ing = [feed |-> f, items |-> items, idx |-> 1,
                                     inserted |-> 0, skipped |-> 0]]
    /\ UNCHANGED <<feeds, posts, now>>
    /\ UNCHANGED PeerFrame

\* The next item of the second instance: as IngestItem.
PeerIngestItem ==
    /\ peer.pc = "ingestor"
    /\ peer.ing.idx >= 1
    /\ peer.ing.idx <= Len(peer.ing.items)
    /\ LET item == peer.ing.items[peer.ing.idx]
           r == CreatePost(posts, feeds, CandidatePost(posts, peer.ing.feed, item, now))
       IN  IF item.Title = <<>> \/ item.Link = <<>>
           THEN /\ peer' = [peer EXCEPT !.ing.idx = @ + 1, !.ing.skipped = @ + 1]
                /\ UNCHANGED posts
           ELSE /\ posts' = r.posts
                /\ peer' = IF r.err = "nil"
                           THEN [peer EXCEPT !.ing.idx = @ + 1, !.ing.inserted = @ + 1]
                           ELSE [peer EXCEPT !.ing.idx = @ + 1, !.ing.skipped = @ + 1]
    /\ UNCHANGED <<feeds, now>>
    /\ UNCHANGED PeerFrame

\* All items of the second instance are done: the report is returned.
PeerIngestEnd ==
    /\ peer.pc = "ingestor"
    /\ peer.ing.idx > Len(peer.ing.items)
    /\ peer' = [peer EXCEPT !.ing.idx = 0, !.ran = 1]
    /\ UNCHANGED <<feeds, posts, now>>
    /\ UNCHANGED PeerFrame

\* Two instances, each about to ingest one parsed feed into the same store.
InitRace ==
    /\ feeds = [f \in FeedIds |-> InitRow(f, NULL)]
    /\ posts = {}
    /\ follows = InitFollows(feeds)
    /\ users = Users
    /\ config = "u1"
    /\ done = NoDone
    /\ now = 2 * MaxFeeds + 1
    /\ queries = "db"
    /\ cmd = [s |-> "state", Args |-> <<>>]
    /\ pc = "ingestor"
    /\ ticker = 0
    /\ aggErr = "none"
    /\ sel = NoSel
    /\ feed = NilFeed
    /\ err = "nil"
    /\ out = <<>>
    /\ cyc = NoOps
    /\ cycles = 0
    /\ hist = <<>>
    /\ pending = [f \in FeedIds |-> {}]
    /\ ing = NoIngest
    /\ prev = NoIngest
    /\ tm = NoClock
    /\ call = <<>>
    /\ peer = [NoPeer EXCEPT !.pc = "ingestor"]
    /\ cmds = MainCommands

NextRace ==
    \/ \E f \in FeedIds, items \in ParsedItemSeqs : prev = NoIngest /\ IngestStart(f, items)
    \/ IngestItem
    \/ IngestEnd
    \/ \E f \in FeedIds, items \in ParsedItemSeqs : PeerIngestStart(f, items)
    \/ PeerIngestItem
    \/ PeerIngestEnd

SpecRace == InitRace /\ [][NextRace]_vars

\* FetchFeed called directly, as a test or another caller would call it.
CallUrls == {""} \cup {UrlN(i) : i \in 1..Len(SampleUrls)}

CallFetchFeed(url, r) ==
    /\ pc = "fetcher"
    /\ call' = <<[url |-> url, resp |-> r, res |-> FetchFeed(url, r)]>>
    /\ UNCHANGED <<feeds, posts, follows, now, queries, cmd, cmds, peer, users, config, done, pc, ticker, aggErr,
                   sel, feed, err, out, cyc, cycles, hist, pending, ing, prev, tm>>

InitFetch ==
    /\ feeds = [f \in {} |-> 0]
    /\ posts = {}
    /\ follows = {}
    /\ users = Users
    /\ config = "u1"
    /\ done = NoDone
    /\ now = 2 * MaxFeeds + 1
    /\ queries = "db"
    /\ cmd = [s |-> "state", Args |-> <<>>]
    /\ pc = "fetcher"
    /\ ticker = 0
    /\ aggErr = "none"
    /\ sel = NoSel
    /\ feed = NilFeed
    /\ err = "nil"
    /\ out = <<>>
    /\ cyc = NoOps
    /\ cycles = 0
    /\ hist = <<>>
    /\ pending = [f \in FeedIds |-> {}]
    /\ ing = NoIngest
    /\ prev = NoIngest
    /\ tm = NoClock
    /\ call = <<>>
    /\ peer = NoPeer
    /\ cmds = MainCommands

NextFetch == \E url \in CallUrls, r \in Responses : CallFetchFeed(url, r)

SpecFetch == InitFetch /\ [][NextFetch]_vars

\* A handler wrapped by MiddlewareLoggedIn called directly, as Commands.Run
\* or a test would call it, on any users table and configuration. The
\* handler returns res; call records whether it was invoked and with which
\* user.
GuardNames == SampleNames \cup {""}

CallLoggedIn(s, fault, res) ==
    /\ pc = "guard"
    /\ LET mw == MiddlewareLoggedIn(s, config, users, fault)
       IN  call' = << [s |-> s, fault |-> fault, res |-> res,
                       invoked |-> mw = "nil",
                       user |-> IF mw = "nil" THEN {u \in users : u = config} ELSE {},
                       err |-> IF mw = "nil" THEN res ELSE mw] >>
    /\ UNCHANGED <<feeds, posts, follows, now, queries, cmd, cmds, peer, users, config, done, pc, ticker, aggErr,
                   sel, feed, err, out, cyc, cycles, hist, pending, ing, prev, tm>>

InitGuard ==
    /\ feeds = [f \in {} |-> 0]
    /\ posts = {}
    /\ follows = {}
    /\ users \in SUBSET GuardNames
    /\ config \in {NilName} \cup GuardNames
    /\ done = NoDone
    /\ now = 2 * MaxFeeds + 1
    /\ queries = "db"
    /\ cmd = [s |-> "state", Args |-> <<>>]
    /\ pc = "guard"
    /\ ticker = 0
    /\ aggErr = "none"
    /\ sel = NoSel
    /\ feed = NilFeed
    /\ err = "nil"
    /\ out = <<>>
    /\ cyc = NoOps
    /\ cycles = 0
    /\ hist = <<>>
    /\ pending = [f \in FeedIds |-> {}]
    /\ ing = NoIngest
    /\ prev = NoIngest
    /\ tm = NoClock
    /\ call = <<>>
    /\ peer = NoPeer
    /\ cmds = MainCommands

NextGuard ==
    \E s \in {"nil", "noconfig", "state"}, fault \in 0..1, res \in {"nil", "handler error"} :
        CallLoggedIn(s, fault, res)

SpecGuard == InitGuard /\ [][NextGuard]_vars

\* Commands.Register and Commands.Run called directly, as main or a test
\* would call them, on a nil Commands, a Commands whose map was not made, or
\* the Commands main builds.
CallRegister(name, f) ==
    /\ pc = "dispatch"
    /\ LET r == Register(cmds, name, f)
       IN  /\ cmds' = r.cmds
           /\ call' = << [op |-> "Register", s |-> "state", name |-> name, f |-> f,
                           replaced |-> IF name \in DOMAIN cmds.Handler
                                        THEN {cmds.Handler[name]} ELSE {},
                           err |-> r.err, invoked |-> {}] >>
    /\ UNCHANGED <<feeds, posts, follows, now, queries, cmd, peer, users, config, done, pc, ticker, aggErr,
                   sel, feed, err, out, cyc, cycles, hist, pending, ing, prev, tm>>

CallRun(s, name) ==
    /\ pc = "dispatch"
    /\ LET r == Run(cmds, s, name)
       IN  call' = << [op |-> "Run", s |-> s, name |-> name, f |-> "", replaced |-> {},
                       err |-> r.err, invoked |-> r.invoked] >>
    /\ UNCHANGED <<feeds, posts, follows, now, queries, cmd, cmds, peer, users, config, done, pc, ticker, aggErr,
                   sel, feed, err, out, cyc, cycles, hist, pending, ing, prev, tm>>

InitDispatch ==
    /\ feeds = [f \in {} |-> 0]
    /\ posts = {}
    /\ follows = {}
    /\ users = Users
    /\ config = "u1"
    /\ done = NoDone
    /\ now = 2 * MaxFeeds + 1
    /\ queries = "db"
    /\ cmd = [s |-> "state", Args |-> <<>>]
    /\ pc = "dispatch"
    /\ ticker = 0
    /\ aggErr = "none"
    /\ sel = NoSel
    /\ feed = NilFeed
    /\ err = "nil"
    /\ out = <<>>
    /\ cyc = NoOps
    /\ cycles = 0
    /\ hist = <<>>
    /\ pending = [f \in FeedIds |-> {}]
    /\ ing = NoIngest
    /\ prev = NoIngest
    /\ tm = NoClock
    /\ call = <<>>
    /\ peer = NoPeer
    /\ cmds \in {[nil |-> TRUE, made |-> FALSE, Handler |-> EmptyMap],
                 [nil |-> FALSE, made |-> FALSE, Handler |-> EmptyMap],
                 [nil |-> FALSE, made |-> TRUE, Handler |-> EmptyMap]}

NextDispatch ==
    \/ \E name \in CmdNames \cup {"users"}, f \in HandlerFuncs : CallRegister(name, f)
    \/ \E s \in {"nil", "state"}, name \in CmdNames \cup {"users"} : CallRun(s, name)

SpecDispatch == InitDispatch /\ [][NextDispatch]_vars

\* The post ingestor alone, on a store with MaxFeeds feeds and no post.
InitIngest ==
    /\ feeds = [f \in FeedIds |-> InitRow(f, NULL)]
    /\ posts = {}
    /\ follows = InitFollows(feeds)
    /\ users = Users
    /\ config = "u1"
    /\ done = NoDone
    /\ now = 2 * MaxFeeds + 1
    /\ queries = "db"
    /\ cmd = [s |-> "state", Args |-> <<>>]
    /\ pc = "ingestor"
    /\ ticker = 0
    /\ aggErr = "none"
    /\ sel = NoSel
    /\ feed = NilFeed
    /\ err = "nil"
    /\ out = <<>>
    /\ cyc = NoOps
    /\ cycles = 0
    /\ hist = <<>>
    /\ pending = [f \in FeedIds |-> {}]
    /\ ing = NoIngest
    /\ prev = NoIngest
    /\ tm = NoClock
    /\ call = <<>>
    /\ peer = NoPeer
    /\ cmds = MainCommands

NextIngest ==
    \/ \E f \in FeedIds, items \in ParsedItemSeqs : IngestStart(f, items)
    \/ IngestItem
    \/ IngestEnd

SpecIngest == InitIngest /\ [][NextIngest]_vars

(***************************************************************************)
(* Properties.                                                             *)
(***************************************************************************)
\* The timestamps of the rows are pairwise distinct (NULL counts as a value).
DistinctFetchTimes(fs) ==
    \A f, g \in DOMAIN fs :
        f # g => fs[f].last_fetched_at # fs[g].last_fetched_at

\* f has the earliest last_fetched_at of the table, NULL being earlier than
\* every timestamp.
IsEarliest(fs, f) ==
    \A g \in DOMAIN fs \ {f} :
        \/ fs[f].last_fetched_at = NULL
        \/ /\ fs[g].last_fetched_at # NULL
           /\ fs[f].last_fetched_at < fs[g].last_fetched_at

\* C1 (selection fairness): whenever scrapeFeeds selects a feed from a
\* non-empty table whose last_fetched_at values are pairwise distinct, the
\* selected feed is the one with the earliest last_fetched_at, a NULL sorting
\* before every timestamp.
C1_SelectionFairness ==
    [][ (pc = "scrape" /\ pc' = "marking" /\ DistinctFetchTimes(feeds))
            => (sel'.ID \in DOMAIN feeds /\ IsEarliest(feeds, sel'.ID)) ]_vars

\* A feed that is not the first created was selected for its NULL among
\* three feeds with distinct values.
C1_Witness ==
    /\ pc = "marking"
    /\ Cardinality(DOMAIN feeds) >= 3
    /\ DistinctFetchTimes(feeds)
    /\ sel.ID # 1
    /\ feeds[sel.ID].last_fetched_at = NULL

\* C2 (no starvation): a feed that was marked in this run is selected again
\* only when every feed that was older than its mark (NULL included) has
\* been selected since.
C2_NoStarvation ==
    (pc = "marking") => (pending[sel.ID] = {})

\* A feed is selected for the second time after another feed had its turn.
C2_Witness ==
    /\ pc = "marking"
    /\ Len(hist) = 3
    /\ hist[1] = sel.ID
    /\ hist[2] # sel.ID
    /\ Cardinality(DOMAIN feeds) = 2
    /\ \A f \in DOMAIN feeds : feeds[f].last_fetched_at > 2 * MaxFeeds

\* C3 (round-robin coverage): with the storage available and a fixed set of
\* N feeds, every registered feed is eventually selected once the loop runs,
\* and any N consecutive cycles select each feed exactly once, whatever the
\* fetches return (so also once every feed has been marked).
Selected(f) == \E i \in 1..Len(hist) : hist[i] = f

EveryWindowCoversFeeds ==
    LET n == Cardinality(DOMAIN feeds)
    IN  \A i \in 1..(Len(hist) - n + 1) :
            {hist[j] : j \in i..(i + n - 1)} = DOMAIN feeds

C3_RoundRobin ==
    /\ (pc = "scrape" /\ cycles = 0) ~> (\A f \in DOMAIN feeds : Selected(f))
    /\ []EveryWindowCoversFeeds

\* Two feeds, three cycles, the third revisits the first feed although a
\* fetch failed.
C3_Witness ==
    /\ pc = "sleeping"
    /\ Cardinality(DOMAIN feeds) = 2
    /\ Len(hist) = 3
    /\ hist[3] = hist[1]
    /\ err = "error fetching the marked feed"

\* C4 (ingestion on success): after a cycle whose fetch succeeded, every item
\* of the parsed feed has a post with its url in the store (stored by this
\* cycle for the selected feed, or stored before).
C4_IngestionOnSuccess ==
    (pc = "sleeping" /\ err = "nil" /\ feed # NilFeed)
        => \A i \in 1..Len(feed[1].Channel.Items) :
               \E p \in posts : p.url = feed[1].Channel.Items[i].Link

\* C5 (idempotent ingestion): while the parsed feed just ingested is ingested
\* again, no step inserts a post: the posts and the count of inserts stay as
\* the first ingestion left them.
C5_IdempotentIngestion ==
    [][ (ing.feed # NoFeed /\ prev.feed # NoFeed /\ ing.items = prev.items)
            => (posts' = posts /\ ing'.inserted = 0) ]_vars

\* A feed of two items, both inserted the first time, both skipped the second.
C5_Witness ==
    /\ ing.feed # NoFeed
    /\ ing.items = prev.items
    /\ Len(ing.items) = 2
    /\ ing.idx > Len(ing.items)
    /\ prev.inserted = 2
    /\ ing.inserted = 0
    /\ ing.skipped = 2
    /\ Cardinality(posts) = 2

\* C6 (dedup across feeds): no two posts of the store have the same url; an
\* item whose url is stored, by whatever feed, inserts nothing, is counted as
\* skipped and does not stop the ingestion.
IngestsItem == ing.idx >= 1 /\ ing.idx <= Len(ing.items) /\ ing' # ing

C6_DedupAcrossFeeds ==
    /\ [](\A p, q \in posts : p.url = q.url => p = q)
    /\ [][ (IngestsItem /\ \E p \in posts : p.url = ing.items[ing.idx].Link)
              => /\ posts' = posts
                 /\ ing' = [ing EXCEPT !.idx = @ + 1, !.skipped = @ + 1] ]_vars

\* Two feeds held the same item: one post, of the feed ingested first.
C6_Witness ==
    /\ ing.feed # NoFeed
    /\ prev.feed # NoFeed
    /\ ing.feed # prev.feed
    /\ prev.inserted = 1
    /\ ing.idx = 2
    /\ ing.skipped = 1
    /\ ing.items[1].Link = prev.items[1].Link
    /\ Cardinality(posts) = 1
    /\ \A p \in posts : p.feed_id = prev.feed /\ p.url = ing.items[1].Link

\* C7 (malformed date tolerance): an item whose publication date is in none
\* of the known layouts, and whose url is new, is stored with published_at
\* NULL, and the ingestion goes on with the next item.
Unparsable(text) == \A k \in KnownDates : k.text # text

C7_MalformedDate ==
    [][ (/\ IngestsItem
         /\ Unparsable(ing.items[ing.idx].PubDate)
         /\ \A p \in posts : p.url # ing.items[ing.idx].Link)
            => /\ \E p \in posts' :
                     /\ p.url = ing.items[ing.idx].Link
                     /\ p.published_at = NULL
                     /\ p.feed_id = ing.feed
               /\ ing' = [ing EXCEPT !.idx = @ + 1, !.inserted = @ + 1] ]_vars

\* The first item had a malformed date and was stored; the second item was
\* ingested after it.
C7_Witness ==
    /\ Len(ing.items) = 2
    /\ ing.idx = 3
    /\ ing.inserted = 2
    /\ Unparsable(ing.items[1].PubDate)
    /\ \E p \in posts : p.url = ing.items[1].Link /\ p.published_at = NULL
    /\ \E p \in posts : p.url = ing.items[2].Link /\ p.published_at # NULL

\* C8 (fetch failure isolation): a cycle whose fetch fails inserts no post;
\* scrapeFeeds returns the error, HandlerAgg prints it, does not return, and
\* blocks on the ticker, from where the next cycle starts.
C8_FetchFailureIsolation ==
    /\ [][ (pc = "fetching" /\ pc' # "fetching" /\ feed' = NilFeed)
              => /\ pc' = "sleeping"
                 /\ aggErr' = "none"
                 /\ err' = "error fetching the marked feed"
                 /\ out' = Append(out, "error scraping the feeds") ]_vars
    /\ [][ (pc \in {"scrape", "marking"} \/ (pc = "fetching" /\ feed' = NilFeed))
              => posts' = posts ]_vars
    /\ [][ pc = "sleeping" => pc' \in {"sleeping", "scrape"} ]_vars
    /\ []((pc = "sleeping" /\ cycles + 1 < MaxCycles) => ENABLED Tick)

\* A second cycle has issued its request and failed: the loop is blocked on
\* the ticker.
C8_Witness ==
    /\ pc = "sleeping"
    /\ cycles = 1
    /\ feed = NilFeed
    /\ cyc.requests = 1
    /\ err = "error fetching the marked feed"
    /\ posts = {}
    /\ ENABLED Tick

\* C9 (empty feed set): with the storage available, a cycle that finds no
\* feed marks nothing, fetches nothing, reports no error, prints the notice
\* and blocks on the ticker; a cycle that finds feeds selects one of them.
C9_EmptyFeedSet ==
    [][ (pc = "scrape" /\ pc' # "scrape")
            => IF DOMAIN feeds = {}
               THEN /\ pc' = "sleeping"
                    /\ err' = "nil"
                    /\ aggErr' = "none"
                    /\ sel' = NoSel
                    /\ cyc'.marks = 0
                    /\ cyc'.requests = 0
                    /\ feeds' = feeds
                    /\ out' = Append(out, "No feeds found in database.")
               ELSE /\ pc' = "marking"
                    /\ sel'.ID \in DOMAIN feeds ]_vars

\* The first cycle found no feed; a feed was added, and a later cycle has
\* selected it.
C9_Witness ==
    /\ pc = "marking"
    /\ cycles >= 1
    /\ Len(hist) = 1
    /\ DOMAIN feeds = {1}
    /\ feeds[1].created_at > 2 * MaxFeeds
    /\ sel.ID = 1

\* C10 (fail-fast configuration): run with no argument, or with a first
\* argument that is no duration string, HandlerAgg returns the error of that
\* case without creating the ticker; nothing was selected, marked or fetched,
\* the store is as it was, and the loop never starts afterwards.
ParseableSamples ==
    { <<"1", "m", "3", "0", "s">>, <<"0", "s">>, <<"0">>, <<"-", "5", "s">> }

C10_FailFast ==
    /\ [][ (/\ pc = "idle" /\ pc' # "idle" /\ cmd.s = "state"
            /\ (Len(cmd.Args) = 0 \/ cmd.Args[1] \notin ParseableSamples))
              => /\ pc' = "returned"
                 /\ aggErr' = IF Len(cmd.Args) = 0
                              THEN "error: time between requests required"
                              ELSE "error: invalid duration format"
                 /\ ticker' = 0
                 /\ hist' = <<>>
                 /\ cyc' = NoOps
                 /\ UNCHANGED <<feeds, posts, follows>> ]_vars
    /\ [][ pc = "returned" => (pc' = "returned" /\ hist' = <<>> /\ cyc' = NoOps) ]_vars

\* agg was run with a string that is no duration, on a store with feeds.
C10_Witness ==
    /\ pc = "returned"
    /\ aggErr = "error: invalid duration format"
    /\ cmd.Args # <<>>
    /\ cmd.Args[1] = <<"1", "0">>
    /\ DOMAIN feeds # {}
    /\ hist = <<>>

\* C11 (storage unavailability): a cycle whose selection or mark fails with
\* an error other than "no rows", or whose storage handle is nil, ends with
\* the error printed by the loop of HandlerAgg: nothing is marked or fetched,
\* HandlerAgg neither returns nor panics, the loop waits on the ticker, and
\* the next cycle, which queries the storage again, is enabled.
StorageErrors ==
    { "error: database queries is nil",
      "error getting next feed to fetch",
      "error marking feed as fetched" }

C11_StorageUnavailability ==
    /\ [][ (pc \in {"scrape", "marking"} /\ err' # "nil")
              => /\ err' \in StorageErrors
                 /\ pc' = "sleeping"
                 /\ aggErr' = "none"
                 /\ out' = Append(out, "error scraping the feeds")
                 /\ feeds' = feeds
                 /\ cyc'.requests = 0 ]_vars
    /\ [][ (pc = "scrape" /\ queries = "nil" /\ pc' # pc)
              => (err' = "error: database queries is nil" /\ cyc' = cyc) ]_vars
    /\ [][ (pc \in {"scrape", "marking", "fetching", "sleeping"})
              => (pc' \in {"scrape", "marking", "fetching", "sleeping"}) ]_vars
    /\ []((pc = "sleeping" /\ err \in StorageErrors /\ cycles + 1 < MaxCycles)
            => ENABLED Tick)

\* The mark of the first cycle failed; the second cycle selected the same
\* feed again and its mark failed too: the loop waits for the next tick.
C11_Witness ==
    /\ pc = "sleeping"
    /\ cycles = 1
    /\ Len(hist) = 2
    /\ hist[1] = hist[2]
    /\ err = "error marking feed as fetched"
    /\ aggErr = "none"
    /\ cyc.requests = 0

\* C12 (one feed per cycle): a cycle issues at most one selection, one
\* MarkFeedFetched and one call of FetchFeed, hence at most one HTTP request;
\* the only row a cycle changes is the row of the feed its selection
\* returned, and the url FetchFeed is called with is the url of that feed.
LastSelected == hist[Len(hist)]

C12_OneFeedPerCycle ==
    /\ [](/\ cyc.selects <= 1
          /\ cyc.marks <= cyc.selects
          /\ Len(cyc.fetched) <= cyc.marks
          /\ cyc.requests <= Len(cyc.fetched))
    /\ [][ \A f \in DOMAIN feeds :
              feeds'[f] # feeds[f]
                  => (pc = "marking" /\ cyc.selects = 1 /\ f = LastSelected) ]_vars
    /\ [](cyc.fetched # <<>>
            => (cyc.selects = 1 /\ cyc.fetched[1] = feeds[LastSelected].url))

\* The second cycle selected, marked and requested the second feed, the
\* request failed and was not repeated.
C12_Witness ==
    /\ pc = "sleeping"
    /\ cycles = 1
    /\ Cardinality(DOMAIN feeds) >= 2
    /\ Len(hist) = 2
    /\ hist[1] # hist[2]
    /\ cyc.selects = 1
    /\ cyc.marks = 1
    /\ cyc.requests = 1
    /\ cyc.fetched = <<feeds[hist[2]].url>>
    /\ feed = NilFeed

\* C13 (mark before fetch): FetchFeed is called only when MarkFeedFetched has
\* completed for the selected feed in the same cycle, which then has the
\* latest last_fetched_at of the table. A failed fetch leaves the mark in
\* place, so the feed is not the next to be selected while there is another
\* feed, and no later selection returns it while another feed has an older
\* (or NULL) last_fetched_at.
MarkedLatest(f) ==
    /\ feeds[f].last_fetched_at # NULL
    /\ \A g \in DOMAIN feeds \ {f} :
          SortsBefore(feeds[g].last_fetched_at, feeds[f].last_fetched_at)

C13_MarkBeforeFetch ==
    /\ []((pc = "fetching" \/ cyc.fetched # <<>>)
            => (cyc.marks = 1 /\ MarkedLatest(sel.ID)))
    /\ [][ cyc'.fetched # cyc.fetched
              => (cyc.marks = 1 /\ MarkedLatest(sel.ID) /\ feeds' = feeds) ]_vars
    /\ []((pc = "sleeping" /\ cyc.fetched # <<>> /\ feed = NilFeed
                /\ Cardinality(DOMAIN feeds) > 1)
            => sel.ID \notin GetNextFeedToFetch(feeds))
    /\ [][ (/\ pc = "scrape" /\ pc' = "marking" /\ hist # <<>>
            /\ \E g \in DOMAIN feeds \ {LastSelected} :
                   SortsBefore(feeds[g].last_fetched_at,
                               feeds[LastSelected].last_fetched_at))
              => sel'.ID # LastSelected ]_vars

\* The second cycle selected the feed the first cycle had not, marked it and
\* its fetch failed: the mark stands and the feed of the first cycle is the
\* next to be selected.
C13_Witness ==
    /\ pc = "sleeping"
    /\ cycles = 1
    /\ Len(hist) = 2
    /\ hist[1] # hist[2]
    /\ DOMAIN feeds = {1, 2}
    /\ feed = NilFeed
    /\ cyc.fetched # <<>>
    /\ feeds[hist[1]].last_fetched_at > 2 * MaxFeeds
    /\ feeds[hist[2]].last_fetched_at > feeds[hist[1]].last_fetched_at
    /\ GetNextFeedToFetch(feeds) = {hist[1]}

\* C14 (fixed cadence): in a timed run, scrapeFeeds is called again only when
\* a full interval has passed since it was last called.
C14_FixedCadence ==
    [][ (tm.on /\ pc = "sleeping" /\ pc' = "scrape")
            => tm.since >= Interval(ticker) ]_vars

(***************************************************************************)
(* The fetcher, called directly.                                           *)
(***************************************************************************)
Called == call # <<>>

\* The response of the last call arrived: client.Do returned it.
Arrived == Called /\ call[1].url # "" /\ call[1].resp.transport \in {"ok", "reset"}

\* C15: FetchFeed called with an empty url returns an error at once, returns
\* no feed and issues no HTTP request (and prints nothing).
C15_EmptyUrl ==
    (Called /\ call[1].url = "") =>
        /\ call[1].res.err = "feed URL is empty"
        /\ call[1].res.feed = NilFeed
        /\ call[1].res.requests = 0
        /\ call[1].res.printed = <<>>

\* An empty url was given together with a response that a GET would have
\* turned into a feed.
C15_Witness ==
    /\ Called
    /\ call[1].url = ""
    /\ call[1].resp.transport = "ok"
    /\ call[1].resp.status = 200
    /\ ContainsXml(call[1].resp.contentType)
    /\ call[1].resp.body.wellFormed
    /\ call[1].res.requests = 0

\* C16: every response whose status is 300 or above makes FetchFeed fail with
\* the HTTP-status error and return no feed, whatever the content type and
\* the body of the response are.
C16_HttpStatus ==
    (Arrived /\ call[1].resp.status >= 300) =>
        /\ call[1].res.err = "error fetching feed: status"
        /\ call[1].res.feed = NilFeed

\* C17: every response whose Content-Type does not contain "xml" (a missing
\* header included) makes FetchFeed fail with the content-type error and
\* return no feed, whatever the status is, and the result does not depend on
\* the body: the body is neither read nor parsed.
C17_ContentTypeGuard ==
    (Arrived /\ ~ContainsXml(call[1].resp.contentType)) =>
        /\ call[1].res.err = "invalid content type"
        /\ call[1].res.feed = NilFeed
        /\ call[1].res.printed = <<>>
        /\ \A b \in SampleBodies, t \in {"ok", "reset"} :
              FetchFeed(call[1].url, [call[1].resp EXCEPT !.body = b, !.transport = t])
                  = call[1].res

\* A response with status 200 and a well-formed feed of two items was
\* refused for its content type.
C17_Witness ==
    /\ Arrived
    /\ call[1].resp.contentType = <<"text/html">>
    /\ call[1].resp.status = 200
    /\ call[1].resp.body.wellFormed
    /\ Len(call[1].resp.body.Channel.Items) = 2
    /\ call[1].res.err = "invalid content type"

\* Every text field of the channel c and of its items, unescaped.
UnescapeEveryField(c) == [UnescapeChannel(c) EXCEPT !.Link = UnescapeString(c.Link)]

\* C18: in every feed a successful FetchFeed returns, each text field of the
\* channel and of every item is the unescaped form of the parsed value, the
\* items being as many and in the same order as parsed.
C18_UnescapeEveryField ==
    (Called /\ call[1].res.err = "nil") =>
        /\ call[1].res.feed # NilFeed
        /\ call[1].res.feed[1].Channel = UnescapeEveryField(call[1].resp.body.Channel)

(***************************************************************************)
(* last_fetched_at and the order of selection.                             *)
(***************************************************************************)
\* The feed of the cycle that has just ended was created by addfeed during
\* the run and this cycle is the only one that selected it: its fetch, which
\* failed, is the only fetch of that feed there has ever been.
OnlyFetchFailed ==
    /\ pc = "sleeping"
    /\ sel.ID \in DOMAIN feeds
    /\ feeds[sel.ID].created_at > 2 * MaxFeeds
    /\ Cardinality({i \in 1..Len(hist) : hist[i] = sel.ID}) = 1
    /\ err = "error fetching the marked feed"

\* C19: a feed has last_fetched_at null unless a fetch of it has succeeded;
\* a feed whose every fetch failed keeps last_fetched_at null.
C19_NullUntilPolled == OnlyFetchFailed => feeds[sel.ID].last_fetched_at = NULL

\* C19 as amended: last_fetched_at is null from the creation of the feed
\* until a cycle selects it; it changes only in the marking step of the
\* selected feed, which sets it to the time of the mark before the fetch,
\* and the fetch that follows, failed or not, leaves it as marked.
C19_NullUntilMarked ==
    [][ /\ \A f \in DOMAIN feeds' \ DOMAIN feeds : feeds'[f].last_fetched_at = NULL
        /\ \A f \in DOMAIN feeds :
              feeds'[f].last_fetched_at # feeds[f].last_fetched_at =>
                  /\ pc = "marking"
                  /\ pc' = "fetching"
                  /\ sel.ID = f
                  /\ feeds'[f].last_fetched_at = now
        /\ (pc = "fetching" /\ pc' = "sleeping") =>
              (feeds' = feeds /\ feeds[sel.ID].last_fetched_at # NULL) ]_vars

\* A feed that addfeed created during the run was selected, marked and
\* fetched once; the fetch failed and the feed is marked all the same.
C19_Witness ==
    /\ OnlyFetchFailed
    /\ feeds[sel.ID].last_fetched_at > feeds[sel.ID].created_at

\* The feeds that have never been fetched.
NeverFetched == {g \in DOMAIN feeds : feeds[g].last_fetched_at = NULL}

\* C20: while some feeds have never been fetched, the selection returns the
\* earliest created of them, before any feed with a concrete last_fetched_at.
C20_FifoNewFeeds ==
    [][ (pc = "scrape" /\ pc' = "marking" /\ NeverFetched # {}) =>
            /\ sel'.ID \in NeverFetched
            /\ \A g \in NeverFetched :
                  feeds[sel'.ID].created_at <= feeds[g].created_at ]_vars

\* The rows GetNextFeedToFetch may return in the present state.
Selectable == {f \in FeedIds : ENABLED SelectFeed(f)}

\* C21: the selection is a function of the store: in every state at most one
\* feed can be selected, also when several feeds tie on last_fetched_at, so
\* that two runs from the same feeds select the same feed in every cycle.
C21_DeterministicTieBreak == Cardinality(Selectable) <= 1

(***************************************************************************)
(* The one-shot commands.                                                  *)
(***************************************************************************)
\* The step is a run of the command name.
Ran(name) == done' # done /\ done'.name = name

\* C22: login with a username that is not in the database ends with an
\* error and exit code 1 and leaves the configured user as it was; login
\* with a registered username, when it succeeds, sets the configured user to
\* that username, and it succeeds when no operation fails; no login changes
\* the database.
C22_Login ==
    [][ (Ran("login") /\ Len(done'.args) = 1) =>
            /\ <<users, feeds, follows, posts>>' = <<users, feeds, follows, posts>>
            /\ done'.args[1] \notin users =>
                  (done'.err # "nil" /\ done'.exit = 1 /\ config' = config)
            /\ done'.args[1] \in users =>
                  /\ done'.err = "nil" => (config' = done'.args[1] /\ done'.exit = 0)
                  /\ done'.err # "nil" => config' = config
                  /\ done'.fault = 0 => done'.err = "nil" ]_vars

\* A login with an unknown name failed while another user was logged in, who
\* still is.
C22_Witness ==
    /\ done.name = "login"
    /\ done.err = "error: user doesn't exist"
    /\ done.fault = 0
    /\ config \in users
    /\ done.args[1] # config

FollowsOf(fl, fs, u, url) == {r \in fl : r.user_id = u /\ r.feed_id \in GetFeedByURL(fs, url)}

\* C24: there is never more than one follow record per (user, feed) pair; a
\* follow of a feed the user already follows returns an error, the 'already
\* following' one when no operation fails, and leaves the follow records
\* unchanged; a follow of a url that is no registered feed returns an error
\* and creates nothing.
C24_FollowUniqueness ==
    /\ [](\A r1, r2 \in follows :
            (r1.user_id = r2.user_id /\ r1.feed_id = r2.feed_id) => r1 = r2)
    /\ [][ (Ran("follow") /\ Len(done'.args) = 1) =>
              /\ FollowsOf(follows, feeds, config, done'.args[1]) # {} =>
                    /\ follows' = follows
                    /\ done'.err # "nil"
                    /\ done'.fault = 0 =>
                          done'.err = "error: you are already following this feed"
              /\ GetFeedByURL(feeds, done'.args[1]) = {} =>
                    /\ done'.err # "nil"
                    /\ <<users, feeds, follows, posts>>' = <<users, feeds, follows, posts>>
       ]_vars

\* The user who follows the feed has asked to follow it again: the command
\* failed as 'already following' and the one record is still there.
C24_Witness ==
    /\ done.name = "follow"
    /\ done.fault = 0
    /\ done.at = now - 1
    /\ done.err = "error: you are already following this feed"
    /\ Cardinality(FollowsOf(follows, feeds, config, done.args[1])) = 1
    /\ done.before.follows = Cardinality(follows)

SchedState(p) ==
    CASE p = "idle" -> "Idle"
      [] p \in {"scrape", "marking"} -> "Selecting"
      [] p = "fetching" -> "Fetching"
      [] p = "sleeping" -> "Sleeping"
      [] OTHER -> "Stopped"

\* C26: the scheduler moves only from Idle to Selecting (or the command is
\* refused before the loop starts), from Selecting to Fetching with a feed
\* selected and marked, from Selecting to Sleeping without a feed or on a
\* storage error, from Fetching to Ingesting after a successful fetch, from
\* Fetching to Sleeping after a failed fetch, from Ingesting to Sleeping and
\* from Sleeping to Selecting.
C26_StateMachine ==
    [][ SchedState(pc') # SchedState(pc) =>
           \/ /\ SchedState(pc) = "Idle"
              /\ SchedState(pc') \in {"Selecting", "Stopped"}
           \/ /\ SchedState(pc) = "Selecting"
              /\ SchedState(pc') = "Fetching"
              /\ sel'.ID # NoFeed
              /\ cyc'.marks = 1
           \/ /\ SchedState(pc) = "Selecting"
              /\ SchedState(pc') = "Sleeping"
              /\ sel.ID = NoFeed \/ err' # "nil"
           \/ /\ SchedState(pc) = "Fetching"
              /\ SchedState(pc') = "Sleeping"
              /\ err' # "nil"
           \/ /\ SchedState(pc) = "Sleeping"
              /\ SchedState(pc') = "Selecting" ]_vars

\* C27: a step of a scrape cycle creates and deletes no feed and changes at
\* most the row of the selected feed, in its marking step, once per cycle:
\* updated_at and last_fetched_at are set to the same timestamp and the
\* name, url, owner and created_at of the row stay.
C27_CycleFrame ==
    [][ pc' # pc =>
          /\ DOMAIN feeds' = DOMAIN feeds
          /\ \A f \in DOMAIN feeds :
                feeds'[f] # feeds[f] =>
                    /\ pc = "marking"
                    /\ cyc.marks = 0
                    /\ f = sel.ID
                    /\ feeds'[f].updated_at = now
                    /\ feeds'[f].last_fetched_at = now
                    /\ feeds'[f] = [feeds[f] EXCEPT !.updated_at = now,
                                                    !.last_fetched_at = now] ]_vars

\* A cycle has marked one of several feeds: the two timestamps of the marked
\* feed are the time of the mark, and a feed that was not selected carries
\* no timestamp of this run.
C27_Witness ==
    /\ pc = "sleeping"
    /\ cycles = 0
    /\ cyc.marks = 1
    /\ feeds[sel.ID].updated_at = feeds[sel.ID].last_fetched_at
    /\ feeds[sel.ID].last_fetched_at > feeds[sel.ID].created_at
    /\ \E g \in DOMAIN feeds \ {sel.ID} : feeds[g].updated_at <= 2 * MaxFeeds

\* C28: every cycle that has started reaches Sleeping, whatever the network
\* does: the fetch ends by an answer or at the deadline of its context; and
\* from Sleeping the next cycle begins (up to the MaxCycles cycles of a run).
C28_CycleCompletes ==
    /\ (pc \in {"scrape", "marking", "fetching"}) ~> (pc = "sleeping")
    /\ (pc = "sleeping" /\ cycles + 1 < MaxCycles) ~> (pc = "scrape")

\* In a cycle after the first, the network has not answered the GET when the
\* deadline of the context is reached.
C28_Witness ==
    /\ tm.on
    /\ pc = "fetching"
    /\ cycles >= 1
    /\ tm.fetch = FetchTimeout

(***************************************************************************)
(* Two scheduler instances on one store.                                   *)
(***************************************************************************)
\* The step inserts the next item of the first / of the second instance.
PeerIngestsItem ==
    peer.ing.idx >= 1 /\ peer.ing.idx <= Len(peer.ing.items) /\ peer'.ing # peer.ing

\* C29: with two instances inserting posts in any interleaving, the store
\* never holds two posts with the same url, no step removes or changes a
\* stored post, and an insert of a url that is stored inserts nothing and is
\* counted as a skipped duplicate.
C29_RaceUniqueness ==
    /\ [](\A p, q \in posts : p.url = q.url => p = q)
    /\ [][ posts \subseteq posts' ]_vars
    /\ [][ (IngestsItem /\ \E p \in posts : p.url = ing.items[ing.idx].Link)
              => /\ posts' = posts
                 /\ ing' = [ing EXCEPT !.idx = @ + 1, !.skipped = @ + 1] ]_vars
    /\ [][ (PeerIngestsItem /\ \E p \in posts : p.url = peer.ing.items[peer.ing.idx].Link)
              => /\ posts' = posts
                 /\ peer'.ing = [peer.ing EXCEPT !.idx = @ + 1, !.skipped = @ + 1] ]_vars

\* Both instances are in the middle of a feed of two items that starts with
\* the same item: the first instance inserted it, the second lost the race
\* and skipped it, and the post stored is the one of the first.
C29_Witness ==
    /\ ing.idx = 2
    /\ peer.ing.idx = 2
    /\ Len(ing.items) = 2
    /\ Len(peer.ing.items) = 2
    /\ ing.feed # peer.ing.feed
    /\ ing.items[1].Link = peer.ing.items[1].Link
    /\ ing.inserted = 1
    /\ peer.ing.skipped = 1
    /\ Cardinality(posts) = 1
    /\ \A p \in posts : p.feed_id = ing.feed

\* Both instances hold the same feed in a cycle that is not over.
Overlap ==
    /\ pc \in {"marking", "fetching"}
    /\ peer.pc \in {"marking", "fetching"}
    /\ sel.ID = peer.sel.ID

\* C30: a selection is no claim: the step that selects a feed, in either
\* instance, leaves the feeds table as it was and the selected feed
\* selectable, so that another instance can select it before it is marked;
\* with a single instance no feed is held by two cycles at once.
C30_SelectionIsNoClaim ==
    /\ [][ (pc = "scrape" /\ pc' = "marking") =>
              (feeds' = feeds /\ sel'.ID \in GetNextFeedToFetch(feeds')) ]_vars
    /\ [][ (peer.pc = "scrape" /\ peer'.pc = "marking") =>
              (feeds' = feeds /\ peer'.sel.ID \in GetNextFeedToFetch(feeds')) ]_vars
    /\ [](peer.pc = "off" => ~Overlap)

\* With several feeds in the store, both instances are fetching the same
\* feed in their first cycle: each selected it before the other marked it.
C30_Witness ==
    /\ pc = "fetching"
    /\ peer.pc = "fetching"
    /\ sel.ID = peer.sel.ID
    /\ cycles = 0
    /\ peer.cycles = 0
    /\ Cardinality(DOMAIN feeds) >= 2

(***************************************************************************)
(* Startup, a failed mark, the login guard and the dispatch of commands.   *)
(***************************************************************************)
\* C31: for every duration argument HandlerAgg either returns an error before
\* the loop or enters the loop with a strictly positive interval; it never
\* panics, and the loop never runs on an interval that is not positive.
C31_StartupNeverCrashes ==
    /\ [][ pc = "idle" =>
              \/ pc' = "returned" /\ aggErr' # "none"
              \/ pc' = "scrape" /\ ticker' > 0 ]_vars
    /\ [](pc # "panicked")
    /\ [](pc \in {"scrape", "marking", "fetching", "sleeping"} => ticker > 0)

\* No feed was added since agg started.
NoFeedAdded == \A f \in DOMAIN feeds : feeds[f].created_at <= 2 * MaxFeeds

\* The cycle ended on a failed MarkFeedFetched.
MarkFailed == pc = "sleeping" /\ err = "error marking feed as fetched"

\* The step in which MarkFeedFetched fails changes neither the feeds nor the
\* posts and ends the cycle, and that cycle issued no request.
MarkFailureAborts ==
    /\ [][ (pc = "marking" /\ pc' # "marking" /\ err' = "error marking feed as fetched")
              => /\ feeds' = feeds
                 /\ posts' = posts
                 /\ cyc'.requests = 0
                 /\ cyc'.fetched = <<>>
                 /\ pc' = "sleeping" ]_vars
    /\ [](MarkFailed => cyc.requests = 0 /\ cyc.fetched = <<>>)

\* C32: if marking the selected feed fails, no fetch is issued and no post is
\* inserted in that cycle, the feed's last_fetched_at is unchanged, and, no
\* feed being added meanwhile, the same feed is the one the next cycle
\* selects.
C32_MarkFailureAborts ==
    /\ MarkFailureAborts
    /\ [](MarkFailed /\ NoFeedAdded => GetNextFeedToFetch(feeds) = {sel.ID})

\* The configured current user is set, is not empty and is in the database.
LoggedIn == config # NilName /\ config # "" /\ config \in users

\* C33: a handler wrapped by MiddlewareLoggedIn is invoked only when the
\* state and its config are not nil and the configured user is set, not
\* empty and in the database, and then it receives exactly the record of
\* that user; in every other case the wrapper returns an error, invokes
\* nothing and leaves the store as it was. When the lookup does not fail
\* the handler is invoked in all the cases that qualify.
C33_LoginGuard ==
    [][ call' # call =>
          LET c == call'[1]
          IN  /\ c.invoked => (c.s = "state" /\ LoggedIn /\ c.user = {config})
              /\ ~(c.s = "state" /\ LoggedIn) => (~c.invoked /\ c.err # "nil")
              /\ ~c.invoked => c.err \notin {"nil", c.res}
              /\ (c.s = "state" /\ LoggedIn /\ c.fault = 0) => (c.invoked /\ c.err = c.res)
              /\ <<users, feeds, follows, posts, config>>' =
                     <<users, feeds, follows, posts, config>> ]_vars

\* The wrapper has been called with a state whose configuration names a user
\* that is not in the database, next to an empty name that is: it returned
\* the lookup error and invoked nothing.
C33_Witness ==
    /\ call # <<>>
    /\ call[1].s = "state"
    /\ config \in SampleNames
    /\ config \notin users
    /\ "" \in users
    /\ ~call[1].invoked
    /\ call[1].err = "error getting user from db"

\* The errors of Commands.Run itself.
RunErrors ==
    {"error: commands is nil", "error: State is nil", "error: Handler map is nil",
     "error: command is not registered"}

\* C34: Register on a nil Commands or a nil handler map returns an error and
\* registers nothing; otherwise it puts the handler under the name, in the
\* place of any handler registered there before, and leaves the other names
\* alone. Run changes no registration; with a nil Commands, a nil state, a
\* nil handler map or a name that is not registered it returns an error of
\* its own and invokes no handler; otherwise it invokes exactly the handler
\* registered last under the name and returns its result.
C34_Dispatch ==
    /\ [][ (call' # call /\ call'[1].op = "Register") =>
              LET c == call'[1]
              IN  /\ c.invoked = {}
                  /\ IF cmds.nil \/ ~cmds.made
                     THEN c.err # "nil" /\ cmds' = cmds
                     ELSE /\ c.err = "nil"
                          /\ cmds'.nil = cmds.nil /\ cmds'.made = cmds.made
                          /\ DOMAIN cmds'.Handler = DOMAIN cmds.Handler \cup {c.name}
                          /\ cmds'.Handler[c.name] = c.f
                          /\ \A n \in DOMAIN cmds.Handler \ {c.name} :
                                cmds'.Handler[n] = cmds.Handler[n] ]_vars
    /\ [][ (call' # call /\ call'[1].op = "Run") =>
              LET c == call'[1]
              IN  /\ cmds' = cmds
                  /\ IF cmds.nil \/ c.s = "nil" \/ ~cmds.made
                        \/ c.name \notin DOMAIN cmds.Handler
                     THEN c.err \in RunErrors /\ c.invoked = {}
                     ELSE /\ c.invoked = {cmds.Handler[c.name]}
                          /\ c.err = HandlerResult(cmds.Handler[c.name]) ]_vars
    /\ []((call # <<>> /\ call[1].op = "Register" /\ call[1].err = "nil")
             => (call[1].name \in DOMAIN cmds.Handler
                   /\ cmds.Handler[call[1].name] = call[1].f))

\* A handler was registered under a name that had another handler, and Run
\* with that name is about to invoke the new one.
C34_Witness ==
    /\ call # <<>>
    /\ call[1].op = "Register"
    /\ call[1].err = "nil"
    /\ call[1].replaced # {}
    /\ call[1].f \notin call[1].replaced
    /\ Run(cmds, "state", call[1].name).invoked = {call[1].f}
    /\ Cardinality(DOMAIN cmds.Handler) >= 2

====
